---- MODULE Spec2Model ----
(***************************************************************************)
(* Model of blcc.py, the braceless C++ translator: the line-driven block   *)
(* engine (class Compiler / MappingCompiler) and the header inliner        *)
(* (expand_blh_includes).                                                   *)
(*                                                                         *)
(* Text is modelled character by character: a Python str is a sequence of  *)
(* one-character strings, so that startswith, strip, slicing and the       *)
(* character scans of the source are computed as the source computes them. *)
(* Python positions are 0-based; Slice(s, a, b) is s[a:b].                  *)
(***************************************************************************)
EXTENDS Integers, Sequences, FiniteSets, TLC

\* ------------------------------------------------------------------------
\* Python str operations used by blcc.py
\* ------------------------------------------------------------------------

SetMin(S) == CHOOSE x \in S : \A y \in S : x <= y
SetMax(S) == CHOOSE x \in S : \A y \in S : x >= y

\* s[a:b] and s[a:] with 0-based positions
Slice(s, a, b) == SubSeq(s, a + 1, b)
From(s, a) == SubSeq(s, a + 1, Len(s))

\* the characters str.strip() / lstrip(' \t') remove; lines carry no newline
\* (Compiler.__init__ strips it), so blank and tab are the only whitespace
IsWs(c) == c = " " \/ c = "\t"

\* number of leading / trailing whitespace characters
LeadLen(s) ==
    IF \E i \in 1..Len(s) : ~IsWs(s[i])
    THEN SetMin({i \in 1..Len(s) : ~IsWs(s[i])}) - 1
    ELSE Len(s)
TrailLen(s) ==
    IF \E i \in 1..Len(s) : ~IsWs(s[i])
    THEN Len(s) - SetMax({i \in 1..Len(s) : ~IsWs(s[i])})
    ELSE Len(s)

LStrip(s) == From(s, LeadLen(s))
RStrip(s) == Slice(s, 0, Len(s) - TrailLen(s))
Strip(s) == LStrip(RStrip(s))

StartsWith(s, p) == Len(p) <= Len(s) /\ SubSeq(s, 1, Len(p)) = p
EndsWith(s, p) == Len(p) <= Len(s) /\ SubSeq(s, Len(s) - Len(p) + 1, Len(s)) = p

\* str.find / str.rfind: 0-based position of the first / last occurrence, -1 if none
Occurrences(s, p) == {i \in 0..(Len(s) - Len(p)) : Slice(s, i, i + Len(p)) = p}
Find(s, p) == IF Occurrences(s, p) = {} THEN -1 ELSE SetMin(Occurrences(s, p))
RFind(s, p) == IF Occurrences(s, p) = {} THEN -1 ELSE SetMax(Occurrences(s, p))
Contains(s, p) == Occurrences(s, p) # {}

\* str.count for a single character
Count(s, c) == Cardinality({i \in 1..Len(s) : s[i] = c})

\* s.split()[0] of a non-empty stripped string: its first word
FirstWord(s) ==
    LET t == LStrip(s)
    IN  IF \E i \in 1..Len(t) : IsWs(t[i])
        THEN Slice(t, 0, SetMin({i \in 1..Len(t) : IsWs(t[i])}) - 1)
        ELSE t

Top(stack) == stack[Len(stack)]
Pop(stack) == SubSeq(stack, 1, Len(stack) - 1)
\* list.pop() guarded by "if len(stack) > 1"
PopIfDeeper(stack) == IF Len(stack) > 1 THEN Pop(stack) ELSE stack

\* ------------------------------------------------------------------------
\* Compiler: line geometry
\* ------------------------------------------------------------------------

\* Python None for the optional integers and the optional keyword
NoIndent == -1
NoKeyword == <<>>

TabWidth == 4
EmptyBlockIndent == 4

\* Compiler._get_indent: blanks count 1, tabs count 4, up to the first other character
get_indent(line) ==
    LET n == LeadLen(line)
    IN  Cardinality({i \in 1..n : line[i] = " "})
          + TabWidth * Cardinality({i \in 1..n : line[i] = "\t"})

\* Compiler._get_content: line.lstrip(' \t')
get_content(line) == LStrip(line)

\* Compiler._get_leading_ws
get_leading_ws(line) == Slice(line, 0, Len(line) - Len(LStrip(line)))

\* ------------------------------------------------------------------------
\* Compiler: character scans
\* ------------------------------------------------------------------------

\* Compiler._update_block_comment_state: scan for /* and */
RECURSIVE block_comment_scan(_, _, _)
block_comment_scan(line, i, in_block_comment) ==
    IF i >= Len(line) THEN in_block_comment
    ELSE IF ~in_block_comment /\ i + 1 < Len(line) /\ Slice(line, i, i + 2) = <<"/","*">>
         THEN block_comment_scan(line, i + 2, TRUE)
    ELSE IF in_block_comment /\ i + 1 < Len(line) /\ Slice(line, i, i + 2) = <<"*","/">>
         THEN block_comment_scan(line, i + 2, FALSE)
    ELSE block_comment_scan(line, i + 1, in_block_comment)

update_block_comment_state(line, in_block_comment) ==
    block_comment_scan(line, 0, in_block_comment)

\* the scan loop of Compiler._find_trailing_colon: position of the last colon
\* outside strings and before a line comment, -1 if none
RECURSIVE last_colon_scan(_, _, _, _, _)
last_colon_scan(content, i, in_string, string_delim, last_colon) ==
    IF i >= Len(content) THEN last_colon
    ELSE LET ch == content[i + 1] IN
         IF i > 0 /\ content[i] = "\\"
         THEN last_colon_scan(content, i + 1, in_string, string_delim, last_colon)
         ELSE IF ~in_string /\ i + 1 < Len(content) /\ Slice(content, i, i + 2) = <<"/","/">>
         THEN last_colon
         ELSE IF ch = "\"" /\ ~in_string
         THEN last_colon_scan(content, i + 1, TRUE, "\"", last_colon)
         ELSE IF ch = "\"" /\ in_string /\ string_delim = "\""
         THEN last_colon_scan(content, i + 1, FALSE, string_delim, last_colon)
         ELSE IF ch = "'" /\ ~in_string
         THEN last_colon_scan(content, i + 1, TRUE, "'", last_colon)
         ELSE IF ch = "'" /\ in_string /\ string_delim = "'"
         THEN last_colon_scan(content, i + 1, FALSE, string_delim, last_colon)
         ELSE IF ~in_string /\ ch = ":"
         THEN last_colon_scan(content, i + 1, in_string, string_delim, i)
         ELSE last_colon_scan(content, i + 1, in_string, string_delim, last_colon)

\* Compiler._find_trailing_colon: found is FALSE for Python's None
NoColon == [found |-> FALSE, before |-> <<>>, after |-> <<>>]
find_trailing_colon(content) ==
    IF content = <<>> THEN NoColon
    ELSE LET last_colon == last_colon_scan(content, 0, FALSE, "", -1) IN
         IF last_colon = -1 THEN NoColon
         ELSE LET after == From(content, last_colon + 1)
                  after_stripped == Strip(after)
              IN  IF after_stripped = <<>> \/ StartsWith(after_stripped, <<"/","/">>)
                  THEN [found |-> TRUE,
                        before |-> RStrip(Slice(content, 0, last_colon)),
                        after |-> after]
                  ELSE NoColon

\* Compiler._find_line_comment: position of the // that starts a comment, -1 for None
RECURSIVE line_comment_scan(_, _, _)
line_comment_scan(text, i, in_string) ==
    IF i >= Len(text) THEN -1
    ELSE IF i > 0 /\ text[i] = "\\" THEN line_comment_scan(text, i + 1, in_string)
    ELSE LET now_in_string == IF text[i + 1] = "\"" THEN ~in_string ELSE in_string IN
         IF ~now_in_string /\ i + 1 < Len(text) /\ Slice(text, i, i + 2) = <<"/","/">>
         THEN i
         ELSE line_comment_scan(text, i + 1, now_in_string)

find_line_comment(text) == line_comment_scan(text, 0, FALSE)

\* Compiler._count_unmatched_parens: unmatched ( and [ outside strings
RECURSIVE paren_scan(_, _, _, _, _)
paren_scan(text, i, in_string, string_delim, depth) ==
    IF i >= Len(text) THEN depth
    ELSE LET ch == text[i + 1] IN
         IF i > 0 /\ text[i] = "\\"
         THEN paren_scan(text, i + 1, in_string, string_delim, depth)
         ELSE IF ch = "\"" /\ ~in_string
         THEN paren_scan(text, i + 1, TRUE, "\"", depth)
         ELSE IF ch = "\"" /\ in_string /\ string_delim = "\""
         THEN paren_scan(text, i + 1, FALSE, string_delim, depth)
         ELSE IF ch = "'" /\ ~in_string
         THEN paren_scan(text, i + 1, TRUE, "'", depth)
         ELSE IF ch = "'" /\ in_string /\ string_delim = "'"
         THEN paren_scan(text, i + 1, FALSE, string_delim, depth)
         ELSE IF ~in_string /\ (ch = "(" \/ ch = "[")
         THEN paren_scan(text, i + 1, in_string, string_delim, depth + 1)
         ELSE IF ~in_string /\ (ch = ")" \/ ch = "]")
         THEN paren_scan(text, i + 1, in_string, string_delim, depth - 1)
         ELSE paren_scan(text, i + 1, in_string, string_delim, depth)

count_unmatched_parens(text) ==
    LET depth == paren_scan(text, 0, FALSE, "", 0)
    IN  IF depth > 0 THEN depth ELSE 0

\* ------------------------------------------------------------------------
\* Compiler: classification of a block-starter
\* ------------------------------------------------------------------------

\* a _should_keep_colon that knows the access specifiers only
should_keep_colon_for_access(before_colon) ==
    Strip(before_colon) \in {<<"p","u","b","l","i","c">>, <<"p","r","i","v","a","t","e">>, <<"p","r","o","t","e","c","t","e","d">>}

\* Compiler._should_keep_colon: case, default and access specifiers keep the colon
should_keep_colon(before_colon) ==
    LET stripped == Strip(before_colon)
    IN  \/ StartsWith(stripped, <<"c","a","s","e"," ">>)
        \/ stripped = <<"d","e","f","a","u","l","t">>
        \/ stripped \in {<<"p","u","b","l","i","c">>, <<"p","r","i","v","a","t","e">>, <<"p","r","o","t","e","c","t","e","d">>}

\* the keyword loop shared by _process_line (lines 226-235) and
\* _wrap_condition_if_needed (lines 882-893): if/for/while/switch followed by a
\* blank or a tab, overridden by "else if"; NoKeyword when none matches
control_keyword_of(stripped) ==
    IF StartsWith(stripped, <<"e","l","s","e"," ","i","f"," ">>) \/ StartsWith(stripped, <<"e","l","s","e"," ","i","f","\t">>)
    THEN <<"e","l","s","e"," ","i","f">>
    ELSE IF StartsWith(stripped, <<"i","f"," ">>) \/ StartsWith(stripped, <<"i","f","\t">>) THEN <<"i","f">>
    ELSE IF StartsWith(stripped, <<"f","o","r"," ">>) \/ StartsWith(stripped, <<"f","o","r","\t">>) THEN <<"f","o","r">>
    ELSE IF StartsWith(stripped, <<"w","h","i","l","e"," ">>) \/ StartsWith(stripped, <<"w","h","i","l","e","\t">>) THEN <<"w","h","i","l","e">>
    ELSE IF StartsWith(stripped, <<"s","w","i","t","c","h"," ">>) \/ StartsWith(stripped, <<"s","w","i","t","c","h","\t">>) THEN <<"s","w","i","t","c","h">>
    ELSE NoKeyword

\* a test that takes a condition for wrapped when it ends with ")"
wraps_whole_by_ends(condition_part, i, paren_depth) ==
    condition_part[Len(condition_part)] = ")"

\* the paren-matching loop of _wrap_condition_if_needed (lines 910-922): TRUE when
\* the parenthesis that opens condition_part closes at its last character
RECURSIVE wraps_whole(_, _, _)
wraps_whole(condition_part, i, paren_depth) ==
    IF i >= Len(condition_part) THEN FALSE
    ELSE LET ch == condition_part[i + 1] IN
         IF ch = "(" THEN wraps_whole(condition_part, i + 1, paren_depth + 1)
         ELSE IF ch = ")"
         THEN IF paren_depth - 1 = 0
              THEN i = Len(condition_part) - 1
              ELSE wraps_whole(condition_part, i + 1, paren_depth - 1)
         ELSE wraps_whole(condition_part, i + 1, paren_depth)

\* Compiler._wrap_condition_if_needed
wrap_condition_if_needed(before_colon) ==
    LET stripped == Strip(before_colon)
        keyword == control_keyword_of(stripped)
        condition_start == IF StartsWith(stripped, <<"e","l","s","e"," ","i","f">>) THEN 7 ELSE Len(keyword)
        condition_part == LStrip(From(stripped, condition_start))
        leading_ws == Slice(before_colon, 0, Len(before_colon) - Len(LStrip(before_colon)))
    IN  IF keyword = NoKeyword THEN before_colon
        ELSE IF StartsWith(condition_part, <<"(">>) /\ wraps_whole(condition_part, 0, 0)
        THEN before_colon
        ELSE leading_ws \o keyword \o <<" ","(">> \o condition_part \o <<")">>

\* Compiler._detect_block_type
detect_block_type(before_colon) ==
    LET stripped == Strip(before_colon) IN
    IF StartsWith(stripped, <<"e","n","u","m"," ">>) \/ Contains(stripped, <<" ","e","n","u","m"," ">>) THEN "ENUM"
    ELSE IF StartsWith(stripped, <<"c","l","a","s","s"," ">>) \/ Contains(stripped, <<" ","c","l","a","s","s"," ">>) THEN "CLASS"
    ELSE IF StartsWith(stripped, <<"s","t","r","u","c","t"," ">>) \/ Contains(stripped, <<" ","s","t","r","u","c","t"," ">>) THEN "STRUCT"
    ELSE IF StartsWith(stripped, <<"u","n","i","o","n"," ">>) \/ Contains(stripped, <<" ","u","n","i","o","n"," ">>) THEN "UNION"
    ELSE IF StartsWith(stripped, <<"s","w","i","t","c","h"," ">>) THEN "SWITCH"
    ELSE IF \/ Contains(stripped, <<"[","]">>) \/ Contains(stripped, <<"[","&","]">>)
            \/ Contains(stripped, <<"[","=","]">>)
            \/ (StartsWith(stripped, <<"[">>) /\ Contains(stripped, <<"]","(">>))
         THEN "LAMBDA"
    ELSE "NORMAL"

\* ------------------------------------------------------------------------
\* Compiler: the translator state and the helpers that read it
\*
\* A translator state s is a record of the fields of Compiler (lines 30-44)
\* and of MappingCompiler (source_lines is TrackedOutputList.source_lines).
\* closing_log observes the calls of _output_closing_brace: the block type
\* passed to each call and the output position of the line it appended.
\* ------------------------------------------------------------------------

\* Compiler.__init__ / MappingCompiler.__init__
NewCompiler(input_lines) ==
    [lines |-> input_lines,
     output |-> <<>>,
     source_lines |-> <<>>,
     current |-> 0,
     indent_stack |-> <<0>>,
     block_type_stack |-> <<"NORMAL">>,
     whitespace_stack |-> << <<>> >>,
     in_block_comment |-> FALSE,
     continuation_indent |-> NoIndent,
     pending_blank_lines |-> <<>>,
     paren_depth |-> 0,
     control_keyword |-> NoKeyword,
     control_condition_lines |-> <<>>,
     control_start_indent |-> NoIndent,
     closing_log |-> <<>>]

\* TrackedOutputList.append: the line and the source line context of the moment,
\* which MappingCompiler.compile sets to current + 1 before each _process_line
\* and to len(lines) (1 for no lines) before the drain
source_line_context(s) ==
    IF s.current < Len(s.lines) THEN s.current + 1
    ELSE IF Len(s.lines) > 0 THEN Len(s.lines) ELSE 1

emit(s, item) ==
    [s EXCEPT !.output = Append(@, item),
              !.source_lines = Append(@, source_line_context(s))]

\* TrackedOutputList.extend
RECURSIVE emit_all(_, _)
emit_all(s, items) ==
    IF items = <<>> THEN s ELSE emit_all(emit(s, Head(items)), Tail(items))

\* list.pop on the output: TrackedOutputList does not override it, so
\* source_lines keeps the popped line's entry
pop_output(s) == [s EXCEPT !.output = Pop(@)]

\* Compiler._flush_blank_lines
flush_blank_lines(s) ==
    [emit_all(s, s.pending_blank_lines) EXCEPT !.pending_blank_lines = <<>>]

\* Compiler._peek_next_line: the 1-based position in lines of the next line that
\* is neither blank nor a // comment, 0 for None
peek_next_line(s) ==
    LET real == {i \in (s.current + 2)..Len(s.lines) :
                    LET content == LStrip(s.lines[i])
                    IN  content # <<>> /\ ~StartsWith(content, <<"/","/">>)}
    IN  IF real = {} THEN 0 ELSE SetMin(real)

\* Compiler._is_do_while: scan the output backwards for the nearest opener
RECURSIVE is_do_while_scan(_, _)
is_do_while_scan(output, i) ==
    IF i < 1 THEN FALSE
    ELSE LET line == Strip(output[i]) IN
         IF StartsWith(line, <<"d","o"," ","{">>) THEN TRUE
         ELSE IF EndsWith(line, <<"{">>) /\ ~Contains(line, <<"d","o">>) THEN FALSE
         ELSE is_do_while_scan(output, i - 1)

is_do_while(s) == is_do_while_scan(s.output, Len(s.output))

\* Compiler._is_while_clause_for_do
is_while_clause_for_do(s, content) ==
    LET stripped == Strip(content)
    IN  (StartsWith(stripped, <<"w","h","i","l","e"," ">>) \/ StartsWith(stripped, <<"w","h","i","l","e","(">>))
        /\ is_do_while(s)

\* text with its // comment removed and right-stripped (lines 985-990, 1085-1090)
code_of(content) ==
    LET stripped == RStrip(content)
        comment_pos == find_line_comment(stripped)
    IN  IF comment_pos # -1 THEN RStrip(Slice(stripped, 0, comment_pos)) ELSE stripped

EndsIncDec(stripped) ==
    Len(stripped) >= 2 /\ (EndsWith(stripped, <<"+","+">>) \/ EndsWith(stripped, <<"-","-">>))

\* Compiler._needs_semicolon
needs_semicolon(s, content) ==
    LET stripped == code_of(content)
        first_non_space == LStrip(stripped)
        last_char == stripped[Len(stripped)]
        next == peek_next_line(s)
        next_content == LStrip(s.lines[next])
        current_indent == get_indent(s.lines[s.current + 1])
    IN  IF stripped = <<>> THEN FALSE
        ELSE IF first_non_space[1] = "," THEN FALSE
        ELSE IF first_non_space[1] = "." /\ next # 0 /\ StartsWith(next_content, <<".">>)
        THEN FALSE
        ELSE IF StartsWith(first_non_space, <<")",",">>) THEN FALSE
        ELSE IF last_char = ";" THEN FALSE
        ELSE IF last_char = "{" THEN FALSE
        ELSE IF last_char = "}"
        THEN \/ Contains(stripped, <<"="," ","{">>) \/ Contains(stripped, <<"=","{">>)
             \/ /\ Contains(stripped, <<"[">>) /\ Contains(stripped, <<"]">>)
                /\ Contains(stripped, <<"(">>) /\ Contains(stripped, <<"{">>)
                /\ Count(stripped, "{") = Count(stripped, "}")
                /\ (Contains(stripped, <<"=">>) \/ StartsWith(first_non_space, <<"r","e","t","u","r","n">>))
        ELSE IF StartsWith(first_non_space, <<"#">>) THEN FALSE
        ELSE IF EndsIncDec(stripped) THEN TRUE
        ELSE IF last_char \in {"+", "-", "*", "/", "%", "&", "|", "^", "=", "<", ">", ",", "(", "["}
        THEN FALSE
        ELSE IF last_char = ")" /\ next # 0 /\ next_content # <<>>
                /\ next_content[1] \in {")", ",", "."}
        THEN /\ get_indent(s.lines[next]) < current_indent
             /\ \E k \in 1..Len(s.indent_stack) : s.indent_stack[k] = current_indent
        ELSE TRUE

\* Compiler._is_continuation
is_continuation(s, content) ==
    LET stripped == code_of(content)
        last_char == stripped[Len(stripped)]
        next == peek_next_line(s)
        next_content == LStrip(s.lines[next])
    IN  IF stripped = <<>> THEN FALSE
        ELSE IF EndsIncDec(stripped) THEN FALSE
        ELSE IF last_char \in {"+", "-", "*", "/", "%", "&", "|", "^", "=", "<", ">", ",", "(", "[", "{"}
        THEN TRUE
        ELSE IF last_char = "\"" /\ next # 0 /\ StartsWith(next_content, <<"\"">>)
        THEN TRUE
        ELSE IF count_unmatched_parens(stripped) > 0 THEN TRUE
        ELSE last_char = ")" /\ next # 0 /\ StartsWith(next_content, <<":">>)

\* ------------------------------------------------------------------------
\* Compiler: emitting statements and closing braces
\* ------------------------------------------------------------------------

\* an _output_with_semicolon that does not look at the block it is in
output_with_semicolon_everywhere(s, line, continuing, force_semicolon) ==
    LET content == get_content(line)
        leading_ws == get_leading_ws(line)
        comment_pos == find_line_comment(content)
        before_comment_with_spaces == Slice(content, 0, comment_pos)
        code_before_comment == RStrip(before_comment_with_spaces)
        code_part == RStrip(content)
    IN  IF Strip(content) = <<>> THEN emit(s, line)
        ELSE IF Strip(content) = <<"p","a","s","s">> THEN s
        ELSE IF (~force_semicolon /\ ~needs_semicolon(s, content)) \/ continuing
        THEN emit(s, line)
        ELSE IF comment_pos # -1
        THEN emit(s, leading_ws \o code_before_comment \o <<";">>
                       \o From(before_comment_with_spaces, Len(code_before_comment))
                       \o From(content, comment_pos))
        ELSE emit(s, leading_ws \o code_part \o <<";">> \o From(content, Len(code_part)))

\* Compiler._output_with_semicolon
output_with_semicolon(s, line, continuing, force_semicolon) ==
    LET content == get_content(line)
        leading_ws == get_leading_ws(line)
        comment_pos == find_line_comment(content)
        before_comment_with_spaces == Slice(content, 0, comment_pos)
        code_before_comment == RStrip(before_comment_with_spaces)
        code_part == RStrip(content)
    IN  IF Strip(content) = <<>> THEN emit(s, line)
        ELSE IF Strip(content) = <<"p","a","s","s">> THEN s
        ELSE IF s.block_type_stack # <<>> /\ Top(s.block_type_stack) = "ENUM"
        THEN emit(s, line)
        ELSE IF (~force_semicolon /\ ~needs_semicolon(s, content)) \/ continuing
        THEN emit(s, line)
        ELSE IF comment_pos # -1
        THEN emit(s, leading_ws \o code_before_comment \o <<";">>
                       \o From(before_comment_with_spaces, Len(code_before_comment))
                       \o From(content, comment_pos))
        ELSE emit(s, leading_ws \o code_part \o <<";">> \o From(content, Len(code_part)))

\* the blocks whose closing brace carries a semicolon (line 759)
SemicolonBlocks == {"CLASS", "STRUCT", "ENUM", "UNION", "LAMBDA"}

\* a closing brace whose semicolon depends on the block type alone
output_closing_brace_by_type(s, block_type, closing_ws, current_line_content) ==
    [emit(s, closing_ws \o <<"}">> \o (IF block_type \in SemicolonBlocks THEN <<";">> ELSE <<>>))
        EXCEPT !.closing_log = Append(@, [type |-> block_type, at |-> Len(s.output) + 1])]

\* Compiler._output_closing_brace
output_closing_brace(s, block_type, closing_ws, current_line_content) ==
    LET current_stripped == LStrip(current_line_content)
        next == peek_next_line(s)
        next_content == LStrip(s.lines[next])
        lambda_in_expression ==
            IF StartsWith(current_stripped, <<")",",">>) \/ StartsWith(current_stripped, <<")">>)
            THEN TRUE
            ELSE next # 0 /\ next_content # <<>>
                 /\ next_content[1] \in {")", ",", ";"}
        needs ==
            /\ block_type \in SemicolonBlocks
            /\ ~(block_type = "LAMBDA" /\ lambda_in_expression)
    IN  [emit(s, closing_ws \o <<"}">> \o (IF needs THEN <<";">> ELSE <<>>))
            EXCEPT !.closing_log = Append(@, [type |-> block_type, at |-> Len(s.output) + 1])]

\* one iteration of the pop in the dedent and drain loops (lines 58-60, 126-128,
\* 388-390, 407-409): pop the content indent, and the block type and the
\* whitespace when their stacks are deeper than 1
popped_type(s, fallback) ==
    IF Len(s.block_type_stack) > 1 THEN Top(s.block_type_stack) ELSE fallback
popped_ws(s) ==
    IF Len(s.whitespace_stack) > 1 THEN Top(s.whitespace_stack) ELSE <<>>
pop_frame(s) ==
    [s EXCEPT !.indent_stack = Pop(@),
              !.block_type_stack = PopIfDeeper(@),
              !.whitespace_stack = PopIfDeeper(@)]

\* a push that forgets the whitespace stack
push_frame_without_whitespace(s, indent, block_type, ws) ==
    [s EXCEPT !.indent_stack = Append(@, indent),
              !.block_type_stack = Append(@, block_type)]

push_frame(s, indent, block_type, ws) ==
    [s EXCEPT !.indent_stack = Append(@, indent),
              !.block_type_stack = Append(@, block_type),
              !.whitespace_stack = Append(@, ws)]

\* the dedent loop of a blank or comment-only line (lines 125-129): every popped
\* frame gets a closing brace
RECURSIVE dedent_for_comment(_, _)
dedent_for_comment(s, indent) ==
    IF Len(s.indent_stack) > 1 /\ Top(s.indent_stack) > indent
    THEN dedent_for_comment(
             output_closing_brace(pop_frame(s), popped_type(s, "NORMAL"), popped_ws(s), <<>>),
             indent)
    ELSE s

\* the dedent loop of a code line (lines 406-413): a REGULAR_BRACE frame is
\* popped without a closing brace
RECURSIVE dedent_for_code(_, _, _)
dedent_for_code(s, indent, content) ==
    IF Len(s.indent_stack) > 1 /\ Top(s.indent_stack) > indent
    THEN dedent_for_code(
             IF popped_type(s, "NORMAL") # "REGULAR_BRACE"
             THEN output_closing_brace(pop_frame(s), popped_type(s, "NORMAL"), popped_ws(s), content)
             ELSE pop_frame(s),
             indent, content)
    ELSE s

\* a dedent loop that does not stop at a class or struct
dedent_through_class(s, content) == dedent_for_code(s, 0, content)

\* the dedent loop of an access specifier (lines 383-392): stop at a class or struct
RECURSIVE dedent_for_access(_, _)
dedent_for_access(s, content) ==
    IF Len(s.indent_stack) > 1 /\ Top(s.block_type_stack) \notin {"CLASS", "STRUCT"}
    THEN dedent_for_access(
             IF popped_type(s, "NORMAL") # "REGULAR_BRACE"
             THEN output_closing_brace(pop_frame(s), popped_type(s, "NORMAL"), popped_ws(s), content)
             ELSE pop_frame(s),
             content)
    ELSE s

\* a drain that closes the innermost frame and drops the frames around it
drain_loop_innermost_only(s) ==
    IF Len(s.indent_stack) > 1
    THEN [output_closing_brace(pop_frame(s), popped_type(s, s.block_type_stack[1]),
                               popped_ws(s), <<>>)
              EXCEPT !.indent_stack = <<s.indent_stack[1]>>,
                     !.block_type_stack = <<s.block_type_stack[1]>>,
                     !.whitespace_stack = <<s.whitespace_stack[1]>>]
    ELSE s

\* the drain loop of MappingCompiler.compile (lines 1238-1242): every popped frame
\* gets a closing brace
RECURSIVE drain_loop(_)
drain_loop(s) ==
    IF Len(s.indent_stack) > 1
    THEN drain_loop(output_closing_brace(pop_frame(s),
                                         popped_type(s, s.block_type_stack[1]),
                                         popped_ws(s), <<>>))
    ELSE s

\* ------------------------------------------------------------------------
\* Compiler._process_line, from its last branch to its first: each phase is
\* the code from its first line to the next return, and ends in the phase
\* the code falls through to
\* ------------------------------------------------------------------------

\* net count of ( and [ over ) and ] in a line (lines 311-312, 706-707)
paren_change(content) ==
    Count(content, "(") + Count(content, "[") - Count(content, ")") - Count(content, "]")

\* lines 698-708: a regular statement
statement_phase(s, line) ==
    LET content == get_content(line)
        is_continuing == is_continuation(s, content)
        s1 == output_with_semicolon(s, line, is_continuing, FALSE)
    IN  IF is_continuing
        THEN [s1 EXCEPT !.continuation_indent = get_indent(line),
                        !.paren_depth = paren_change(content)]
        ELSE s1

\* the text built for a do-while terminator (lines 485-506 and 667-687): the
\* condition without its trailing comment, wrapped unless it starts with ( and
\* ends with ), then ";" and the comment
while_terminator(condition_part) ==
    LET comment_pos == find_line_comment(condition_part)
        code_part == IF comment_pos # -1
                     THEN RStrip(Slice(condition_part, 0, comment_pos))
                     ELSE RStrip(condition_part)
        trailing_part == IF comment_pos # -1
                         THEN From(condition_part, Len(code_part))
                         ELSE <<>>
    IN  (IF ~(StartsWith(code_part, <<"(">>) /\ EndsWith(code_part, <<")">>))
         THEN <<"w","h","i","l","e"," ","(">> \o code_part \o <<")",";">>
         ELSE <<"w","h","i","l","e"," ">> \o code_part \o <<";">>) \o trailing_part

\* lines 656-696: the while clause that closes a do block
while_clause_phase(s, line) ==
    LET content == get_content(line)
        stripped_content == Strip(content)
        wrapped_content ==
            IF StartsWith(stripped_content, <<"w","h","i","l","e"," ">>)
            THEN while_terminator(LStrip(From(stripped_content, 6)))
            ELSE stripped_content \o <<";">>
    IN  IF is_while_clause_for_do(s, content)
        THEN IF s.output # <<>> /\ Strip(Top(s.output)) = <<"}">>
             THEN emit(pop_output(s), get_leading_ws(line) \o <<"}"," ">> \o wrapped_content)
             ELSE emit(s, get_leading_ws(line) \o wrapped_content)
        ELSE statement_phase(s, line)

AccessSpecifiers == {<<"p","u","b","l","i","c">>, <<"p","r","i","v","a","t","e">>, <<"p","r","o","t","e","c","t","e","d">>}

\* TRUE when content ends in a colon after public, private or protected
\* (lines 113-117, 368-372, 600-603)
is_access_specifier(content) ==
    LET colon_info == find_trailing_colon(content)
    IN  colon_info.found /\ Strip(colon_info.before) \in AccessSpecifiers

\* a line that is neither blank nor a // comment, as the look-ahead loops test it
is_code_line(line) ==
    LET content == get_content(line)
    IN  content # <<>> /\ ~StartsWith(LStrip(content), <<"/","/">>)

\* lines 561-575: the frame pushed by an else/catch block-starter
push_else_frame(s, line, block_type) ==
    LET next == peek_next_line(s)
        indent == get_indent(line)
    IN  IF next # 0
        THEN IF is_code_line(s.lines[next]) /\ get_indent(s.lines[next]) > indent
             THEN push_frame(s, get_indent(s.lines[next]), block_type, get_leading_ws(line))
             ELSE s
        ELSE push_frame(s, indent + EmptyBlockIndent, block_type, get_leading_ws(line))

\* a push that does not know the empty block marked by pass
push_block_frame_without_pass(s, line, block_type, ending_continuation_with_colon) ==
    LET next == peek_next_line(s)
        indent == get_indent(line)
        \* lines 598-612: look past an access specifier that follows class/struct
        after_access == {i \in (s.current + 3)..Len(s.lines) : is_code_line(s.lines[i])}
        look_further == /\ block_type \in {"CLASS", "STRUCT"}
                        /\ is_access_specifier(get_content(s.lines[next]))
                        /\ after_access # {}
        body == IF look_further THEN SetMin(after_access) ELSE next
        next_indent == get_indent(s.lines[body])
        next_content == get_content(s.lines[body])
        \* lines 619-636: the line that started the continuation
        starts == {i \in 1..s.current :
                      is_code_line(s.lines[i]) /\ get_indent(s.lines[i]) < indent}
        found_start == ending_continuation_with_colon /\ starts # {}
        base_indent == IF ending_continuation_with_colon
                       THEN IF starts # {} THEN get_indent(s.lines[SetMax(starts)]) ELSE 0
                       ELSE indent
        opener_ws == IF found_start THEN get_leading_ws(s.lines[SetMax(starts)])
                     ELSE get_leading_ws(line)
    IN  IF next # 0 /\ next_content # <<>> /\ ~StartsWith(next_content, <<"/","/">>)
        THEN IF next_indent > base_indent
             THEN push_frame(s, next_indent, block_type, opener_ws)
             ELSE s
        ELSE s

\* lines 591-650: the frame pushed by a regular block-starter
push_block_frame(s, line, block_type, ending_continuation_with_colon) ==
    LET next == peek_next_line(s)
        indent == get_indent(line)
        \* lines 598-612: look past an access specifier that follows class/struct
        after_access == {i \in (s.current + 3)..Len(s.lines) : is_code_line(s.lines[i])}
        look_further == /\ block_type \in {"CLASS", "STRUCT"}
                        /\ is_access_specifier(get_content(s.lines[next]))
                        /\ after_access # {}
        body == IF look_further THEN SetMin(after_access) ELSE next
        next_indent == get_indent(s.lines[body])
        next_content == get_content(s.lines[body])
        \* lines 619-636: the line that started the continuation
        starts == {i \in 1..s.current :
                      is_code_line(s.lines[i]) /\ get_indent(s.lines[i]) < indent}
        found_start == ending_continuation_with_colon /\ starts # {}
        base_indent == IF ending_continuation_with_colon
                       THEN IF starts # {} THEN get_indent(s.lines[SetMax(starts)]) ELSE 0
                       ELSE indent
        opener_ws == IF found_start THEN get_leading_ws(s.lines[SetMax(starts)])
                     ELSE get_leading_ws(line)
    IN  IF next # 0 /\ next_content # <<>> /\ ~StartsWith(next_content, <<"/","/">>)
        THEN IF next_indent > base_indent
             THEN push_frame(s, next_indent, block_type, opener_ws)
             ELSE IF Strip(next_content) = <<"p","a","s","s">>
             THEN push_frame(s, base_indent + EmptyBlockIndent, block_type, opener_ws)
             ELSE s
        ELSE s

\* lines 524-654: a line that ends with a colon
block_start_phase(s, line, ending_continuation_with_colon) ==
    LET content == get_content(line)
        colon_info == find_trailing_colon(content)
        before_colon == colon_info.before
        after_colon == colon_info.after
        leading_ws == get_leading_ws(line)
        block_type == detect_block_type(before_colon)
        stripped_before == Strip(before_colon)
        keyword == IF stripped_before # <<>> THEN FirstWord(stripped_before) ELSE <<>>
        wrapped == wrap_condition_if_needed(stripped_before)
        merged == emit(pop_output(s), leading_ws \o <<"}"," ">> \o wrapped \o <<" ","{">> \o after_colon)
        s_else == IF s.output # <<>> /\ Strip(Top(s.output)) = <<"}">>
                  THEN flush_blank_lines(merged)
                  ELSE emit(flush_blank_lines(s), leading_ws \o wrapped \o <<" ","{">> \o after_colon)
        s_block == emit(flush_blank_lines(s),
                        leading_ws \o wrap_condition_if_needed(before_colon) \o <<" ","{">> \o after_colon)
    IN  IF ~colon_info.found THEN while_clause_phase(s, line)
        ELSE IF should_keep_colon(before_colon)
        THEN emit(s, leading_ws \o before_colon \o <<":">> \o after_colon)
        ELSE IF keyword \in {<<"e","l","s","e">>, <<"c","a","t","c","h">>}
        THEN [push_else_frame(s_else, line, block_type) EXCEPT !.continuation_indent = NoIndent]
        ELSE [push_block_frame(s_block, line, block_type, ending_continuation_with_colon)
                 EXCEPT !.continuation_indent = NoIndent]

\* lines 511-522: an author's closing brace pops one frame and is emitted as is
closing_brace_phase(s, line, ending_continuation_with_colon) ==
    LET content == get_content(line)
    IN  IF Strip(content) = <<"}">>
        THEN emit(IF Len(s.indent_stack) > 1 /\ get_indent(line) < Top(s.indent_stack)
                  THEN pop_frame(s) ELSE s,
                  line)
        ELSE block_start_phase(s, line, ending_continuation_with_colon)

\* lines 470-509: "} while" on one line
brace_while_phase(s, line, ending_continuation_with_colon) ==
    LET stripped_content == Strip(get_content(line))
        while_part == LStrip(From(stripped_content, 2))
        condition_part ==
            IF StartsWith(while_part, <<"w","h","i","l","e"," ">>) THEN LStrip(From(while_part, 6))
            ELSE IF StartsWith(while_part, <<"w","h","i","l","e","(">>) THEN From(while_part, 5)
            ELSE while_part
    IN  IF /\ (StartsWith(stripped_content, <<"}"," ","w","h","i","l","e"," ">>) \/ StartsWith(stripped_content, <<"}"," ","w","h","i","l","e","(">>))
           /\ is_do_while(s)
        THEN emit(s, get_leading_ws(line) \o <<"}"," ">> \o while_terminator(condition_part))
        ELSE closing_brace_phase(s, line, ending_continuation_with_colon)

\* lines 448-454 and 459-467: the REGULAR_BRACE frame of an author's opening brace
push_regular_brace(s, line) ==
    LET next == peek_next_line(s)
    IN  IF next # 0 /\ is_code_line(s.lines[next])
           /\ get_indent(s.lines[next]) > get_indent(line)
        THEN push_frame(s, get_indent(s.lines[next]), "REGULAR_BRACE", <<>>)
        ELSE s

\* lines 436-468: a line that ends with an author's opening brace
regular_brace_phase(s, line, ending_continuation_with_colon) ==
    LET content == get_content(line)
        stripped_content == Strip(content)
        is_else_or_catch ==
            /\ (StartsWith(stripped_content, <<"e","l","s","e"," ">>) \/ StartsWith(stripped_content, <<"c","a","t","c","h"," ">>))
            /\ Contains(stripped_content, <<"{">>)
    IN  IF EndsWith(RStrip(content), <<"{">>) /\ ~EndsWith(RStrip(content), <<"{","{">>)
        THEN IF is_else_or_catch /\ s.output # <<>> /\ Strip(Top(s.output)) = <<"}">>
             THEN push_regular_brace(
                      emit(pop_output(s), get_leading_ws(line) \o <<"}"," ">> \o stripped_content),
                      line)
             ELSE push_regular_brace(emit(s, line), line)
        ELSE brace_while_phase(s, line, ending_continuation_with_colon)

\* lines 418-434: pending blank lines are flushed before a code line unless the
\* line is an else or a catch
flush_phase(s, line, ending_continuation_with_colon) ==
    LET content == get_content(line)
        check_colon == find_trailing_colon(content)
        check_keyword == IF Strip(check_colon.before) # <<>>
                         THEN FirstWord(Strip(check_colon.before)) ELSE <<>>
        stripped_check == Strip(content)
        might_be_else_or_catch ==
            \/ check_colon.found /\ check_keyword \in {<<"e","l","s","e">>, <<"c","a","t","c","h">>}
            \/ /\ EndsWith(RStrip(content), <<"{">>)
               /\ (StartsWith(stripped_check, <<"e","l","s","e"," ">>) \/ StartsWith(stripped_check, <<"c","a","t","c","h"," ">>))
    IN  regular_brace_phase(IF might_be_else_or_catch THEN s ELSE flush_blank_lines(s),
                            line, ending_continuation_with_colon)

\* lines 365-416: dedent of a code line
dedent_phase(s, line, ending_continuation_with_colon) ==
    LET content == get_content(line)
        indent == get_indent(line)
        has_class_or_struct ==
            \E k \in 1..Len(s.block_type_stack) : s.block_type_stack[k] \in {"CLASS", "STRUCT"}
        saved_access_blank_lines == s.pending_blank_lines
        closed == dedent_for_access([s EXCEPT !.pending_blank_lines = <<>>], content)
    IN  IF indent < Top(s.indent_stack)
        THEN IF is_access_specifier(content) /\ has_class_or_struct
             THEN emit(emit_all(closed, saved_access_blank_lines), line)
             ELSE flush_phase(dedent_for_code(s, indent, content), line,
                              ending_continuation_with_colon)
        ELSE flush_phase(s, line, ending_continuation_with_colon)

\* lines 327-349: whether the continuation that ends in {} started at a
\* constructor with an initializer list
is_constructor_init(s, line) ==
    LET indent == get_indent(line)
        starts == {i \in 1..s.current :
                      is_code_line(s.lines[i]) /\ get_indent(s.lines[i]) < indent}
        i == SetMax(starts)
        prev_content == get_content(s.lines[i])
    IN  /\ starts # {}
        /\ \/ Contains(prev_content, <<":">>) /\ Contains(prev_content, <<"(">>)
           \/ /\ Contains(prev_content, <<"(">>) /\ Contains(prev_content, <<")">>)
              /\ \E j \in i..(s.current + 1) :
                    LET check_content == get_content(s.lines[j])
                    IN  Contains(check_content, <<":">>)
                        /\ ~StartsWith(LStrip(check_content), <<"/","/">>)

\* lines 293-363: a line inside a multi-line continuation
continuation_phase(s, line) ==
    LET content == get_content(line)
        indent == get_indent(line)
        depth == s.paren_depth + paren_change(content)
        is_last_continuation == ~is_continuation(s, content) /\ depth <= 0
        stripped_content == RStrip(content)
        force_semicolon ==
            IF /\ is_last_continuation
               /\ EndsWith(stripped_content, <<"{","}">>)
               /\ Count(stripped_content, "{") = Count(stripped_content, "}")
            THEN ~is_constructor_init(s, line)
            ELSE /\ is_last_continuation
                 /\ EndsWith(stripped_content, <<"}">>)
                 /\ ~EndsWith(stripped_content, <<"{","}">>)
        s1 == output_with_semicolon([s EXCEPT !.paren_depth = depth], line,
                                    ~is_last_continuation, force_semicolon)
    IN  IF s.continuation_indent # NoIndent
        THEN IF indent >= s.continuation_indent
             THEN IF find_trailing_colon(content).found
                  THEN dedent_phase([s EXCEPT !.continuation_indent = NoIndent], line, TRUE)
                  ELSE IF is_last_continuation
                       THEN [s1 EXCEPT !.continuation_indent = NoIndent, !.paren_depth = 0]
                       ELSE s1
             ELSE dedent_phase([s EXCEPT !.continuation_indent = NoIndent], line, FALSE)
        ELSE dedent_phase(s, line, FALSE)

\* lines 223-290: a control statement whose condition has no parentheses and no
\* trailing colon either carries an author's brace (wrapped and emitted at once)
\* or starts the collection of a multi-line condition
control_start_phase(s, line) ==
    LET content == get_content(line)
        indent == get_indent(line)
        stripped == Strip(content)
        detected_keyword == control_keyword_of(stripped)
        condition_start == IF detected_keyword = <<"e","l","s","e"," ","i","f">> THEN 7 ELSE Len(detected_keyword)
        condition_part == LStrip(From(stripped, condition_start))
        brace_pos == Find(content, <<"{">>)
        before_brace == RStrip(Slice(content, 0, brace_pos))
        after_brace == From(content, brace_pos)
        wrapped == wrap_condition_if_needed(before_brace)
    IN  IF /\ detected_keyword # NoKeyword
           /\ ~(detected_keyword = <<"w","h","i","l","e">> /\ is_do_while(s))
           /\ ~find_trailing_colon(content).found
           /\ ~StartsWith(condition_part, <<"(">>)
        THEN IF Contains(content, <<"{">>)
             THEN push_regular_brace(
                      emit(s, get_leading_ws(line) \o wrapped \o <<" ">> \o after_brace), line)
             ELSE [s EXCEPT !.control_keyword = detected_keyword,
                            !.control_condition_lines = <<line>>,
                            !.control_start_indent = indent]
        ELSE continuation_phase(s, line)

\* lines 168-221: a line read while a multi-line control condition is collected
collect_condition_phase(s, line) ==
    LET content == get_content(line)
        colon_info == find_trailing_colon(content)
        before_colon == colon_info.before
        after_colon == colon_info.after
        lines_ == Append(s.control_condition_lines,
                         Slice(line, 0, RFind(line, before_colon) + Len(before_colon)))
        first_line == lines_[1]
        keyword_end == Find(first_line, s.control_keyword) + Len(s.control_keyword)
        wrapped_first == Slice(first_line, 0, keyword_end) \o <<" ","(">>
                            \o LStrip(From(first_line, keyword_end))
        emitted == <<wrapped_first>> \o Tail(lines_)
        closed == [emitted EXCEPT ![Len(emitted)] =
                      @ \o <<")"," ","{">> \o (IF Strip(after_colon) # <<>> THEN after_colon ELSE <<>>)]
        block_type == detect_block_type(s.control_keyword)
        next == peek_next_line(s)
        s1 == emit_all(s, closed)
        s2 == IF next # 0 /\ is_code_line(s.lines[next])
                 /\ get_indent(s.lines[next]) > s.control_start_indent
              THEN push_frame(s1, get_indent(s.lines[next]), block_type,
                              get_leading_ws(s.control_condition_lines[1]))
              ELSE s1
    IN  IF colon_info.found
        THEN [s2 EXCEPT !.control_keyword = NoKeyword,
                        !.control_condition_lines = <<>>,
                        !.control_start_indent = NoIndent]
        ELSE [s EXCEPT !.control_condition_lines = Append(@, line)]

\* lines 96-166: a blank or comment-only line
blank_or_comment_phase(s, line) ==
    LET content == get_content(line)
        indent == get_indent(line)
        peek == peek_next_line(s)
        should_dedent ==
            /\ peek # 0
            /\ get_indent(s.lines[peek]) <= indent
            /\ ~is_access_specifier(get_content(s.lines[peek]))
        s1 == IF indent < Top(s.indent_stack) /\ should_dedent
              THEN dedent_for_comment(s, indent)
              ELSE s
        next_indent == get_indent(s.lines[peek])
        should_buffer ==
            IF content = <<>>
            THEN peek # 0 /\ next_indent < Top(s1.indent_stack) /\ indent = next_indent
            ELSE peek # 0 /\ next_indent < Top(s1.indent_stack)
    IN  IF should_buffer
        THEN [s1 EXCEPT !.pending_blank_lines = Append(@, line)]
        ELSE emit(flush_blank_lines(s1), line)

\* Compiler._process_line
process_line(s) ==
    LET line == s.lines[s.current + 1]
        started_in_comment == s.in_block_comment
        s1 == [s EXCEPT !.in_block_comment = update_block_comment_state(line, @)]
        content == get_content(line)
    IN  IF started_in_comment \/ s1.in_block_comment THEN emit(s1, line)
        ELSE IF content = <<>> \/ StartsWith(LStrip(content), <<"/","/">>)
        THEN blank_or_comment_phase(s1, line)
        ELSE IF s1.control_keyword # NoKeyword THEN collect_condition_phase(s1, line)
        ELSE control_start_phase(s1, line)

\* MappingCompiler.compile after its loop (lines 1234-1244): drain the stacks,
\* then emit the blank lines that were still pending
drain(s) ==
    LET saved_blank_lines == s.pending_blank_lines
    IN  emit_all(drain_loop([s EXCEPT !.pending_blank_lines = <<>>]), saved_blank_lines)

\* ------------------------------------------------------------------------
\* State
\* ------------------------------------------------------------------------

VARIABLES
    \* the Compiler object (lines 30-44) and TrackedOutputList.source_lines
    lines, output, source_lines, current,
    indent_stack, block_type_stack, whitespace_stack,
    in_block_comment, continuation_indent, pending_blank_lines, paren_depth,
    control_keyword, control_condition_lines, control_start_indent,
    closing_log,    \* the calls of _output_closing_brace so far
    pc,             \* "idle", "run" inside the loop of compile, "done" after it
                    \* returned, "returned" after transpile_file returned
    run,            \* 1 for compile(x), 2 for compile(compile(x))
    first_text,     \* the text compile(x) returned, once run 2 started
    \* one call of expand_blh_includes on a root file
    fs,             \* the files: path -> the lines readlines() returns
    root,           \* source_path of the outermost call
    include_dirs,   \* include_dirs of the call
    exp_pc,         \* "idle", "call", "run", "done", "raised"
    exp_stack,      \* the activations of expand_blh_includes, outermost first
    included_files, \* the set shared by all activations
    exp_result,     \* what the outermost call returned: lines and line_map
    exp_error,      \* the path in the error the outermost call raised, or NoPath
    \* one call of patch_compiler_output
    compiler_output, \* the lines of its argument output
    file_mappings,  \* temp_cpp_path -> what its mapper answers for lines 1, 2, ...
    error_format,   \* "GNU" or "MSVC"
    patched_lines,  \* the local list of the same name
    patch_pc,       \* "idle", "run" inside its loop, "done" after it returned
    \* one call of run_compiler_wrapper
    wrapper_pc,     \* "idle", "call", "loop" inside the try, "finally", "returned"
    keep_temp,      \* the argument of the same name
    blcpp_files,    \* the .blcpp files still to be transpiled, with what
                    \* transpile_file will do for each
    temp_dir,       \* "none" before mkdtemp, then "exists" or "removed"
    temp_files,     \* the names of the files in the temp directory
    returncode      \* what the call returned, NoCode before

cvars == <<lines, output, source_lines, current,
           indent_stack, block_type_stack, whitespace_stack,
           in_block_comment, continuation_indent, pending_blank_lines, paren_depth,
           control_keyword, control_condition_lines, control_start_indent,
           closing_log, pc, run, first_text>>
evars == <<fs, root, include_dirs, exp_pc, exp_stack, included_files, exp_result,
           exp_error>>
pvars == <<compiler_output, file_mappings, error_format, patched_lines, patch_pc>>
wvars == <<wrapper_pc, keep_temp, blcpp_files, temp_dir, temp_files, returncode>>
vars == <<cvars, evars, pvars, wvars>>

\* ------------------------------------------------------------------------
\* The translator as a state machine: one step per call of _process_line,
\* one step for the drain at the end of compile
\* ------------------------------------------------------------------------

\* the Compiler object as a record
State ==
    [lines |-> lines, output |-> output, source_lines |-> source_lines,
     current |-> current, indent_stack |-> indent_stack,
     block_type_stack |-> block_type_stack, whitespace_stack |-> whitespace_stack,
     in_block_comment |-> in_block_comment, continuation_indent |-> continuation_indent,
     pending_blank_lines |-> pending_blank_lines, paren_depth |-> paren_depth,
     control_keyword |-> control_keyword,
     control_condition_lines |-> control_condition_lines,
     control_start_indent |-> control_start_indent,
     closing_log |-> closing_log]

\* the next state holds the Compiler object s
Becomes(s) ==
    /\ lines' = s.lines
    /\ output' = s.output
    /\ source_lines' = s.source_lines
    /\ current' = s.current
    /\ indent_stack' = s.indent_stack
    /\ block_type_stack' = s.block_type_stack
    /\ whitespace_stack' = s.whitespace_stack
    /\ in_block_comment' = s.in_block_comment
    /\ continuation_indent' = s.continuation_indent
    /\ pending_blank_lines' = s.pending_blank_lines
    /\ paren_depth' = s.paren_depth
    /\ control_keyword' = s.control_keyword
    /\ control_condition_lines' = s.control_condition_lines
    /\ control_start_indent' = s.control_start_indent
    /\ closing_log' = s.closing_log

\* all sequences over S of length at most n
SeqsUpTo(S, n) == UNION {[1..k -> S] : k \in 0..n}

\* Compiler.__init__ on one of the inputs, compile entered with phase p
CompilerInit(inputs, p) ==
    /\ lines \in inputs
    /\ output = <<>>
    /\ source_lines = <<>>
    /\ current = 0
    /\ indent_stack = <<0>>
    /\ block_type_stack = <<"NORMAL">>
    /\ whitespace_stack = << <<>> >>
    /\ in_block_comment = FALSE
    /\ continuation_indent = NoIndent
    /\ pending_blank_lines = <<>>
    /\ paren_depth = 0
    /\ control_keyword = NoKeyword
    /\ control_condition_lines = <<>>
    /\ control_start_indent = NoIndent
    /\ closing_log = <<>>
    /\ pc = p
    /\ run = 1
    /\ first_text = <<>>

\* one iteration of the loop of compile (lines 48-50, 1229-1232)
Step ==
    /\ pc = "run"
    /\ current < Len(lines)
    /\ Becomes([process_line(State) EXCEPT !.current = current + 1])
    /\ UNCHANGED <<pc, run, first_text, evars, pvars, wvars>>

\* the end of compile (lines 52-66, 1234-1246): drain and return
Finish ==
    /\ pc = "run"
    /\ current >= Len(lines)
    /\ Becomes(drain(State))
    /\ pc' = "done"
    /\ UNCHANGED <<run, first_text, evars, pvars, wvars>>

\* the text compile returns (line 66): '\n'.join(output) + '\n'
RECURSIVE join_lines(_)
join_lines(out) ==
    IF out = <<>> THEN <<>>
    ELSE IF Len(out) = 1 THEN out[1]
    ELSE out[1] \o <<"\n">> \o join_lines(Tail(out))

compiled_text(out) == join_lines(out) \o <<"\n">>

\* the lines Compiler.__init__ gets from a text that was written to a file and
\* read back with readlines (lines 1330-1331), each without its line end (line 31)
RECURSIVE read_lines(_)
read_lines(text) ==
    IF text = <<>> THEN <<>>
    ELSE LET ends == {i \in 1..Len(text) : text[i] = "\n"}
             cut == IF ends = {} THEN Len(text) + 1 ELSE SetMin(ends)
         IN  <<SubSeq(text, 1, cut - 1)>> \o read_lines(SubSeq(text, cut + 1, Len(text)))

\* the translator is run again on the text it returned
Recompile ==
    /\ pc = "done"
    /\ run = 1
    /\ Becomes(NewCompiler(read_lines(compiled_text(output))))
    /\ pc' = "run"
    /\ run' = 2
    /\ first_text' = compiled_text(output)
    /\ UNCHANGED <<evars, pvars, wvars>>

\* ------------------------------------------------------------------------
\* Header expansion: expand_blh_includes (lines 1279-1371)
\* A path is <<directory, file name>>; a file is the list of lines readlines()
\* returns, each line with its line end.
\* ------------------------------------------------------------------------

UpperCase == <<"A","B","C","D","E","F","G","H","I","J","K","L","M","N","O","P","Q","R","S","T","U","V","W","X","Y","Z">>
LowerCase == <<"a","b","c","d","e","f","g","h","i","j","k","l","m","n","o","p","q","r","s","t","u","v","w","x","y","z">>

\* str.lower on one character, as re.IGNORECASE compares
Lower(c) ==
    IF \E k \in 1..Len(UpperCase) : UpperCase[k] = c
    THEN LowerCase[CHOOSE k \in 1..Len(UpperCase) : UpperCase[k] = c]
    ELSE c

LowerAll(s) == [k \in 1..Len(s) |-> Lower(s[k])]

\* what \s matches: here blank, tab and the line end
IsSpace(c) == IsWs(c) \/ c = "\n"

\* number of leading characters \s* takes
SpaceLen(s) ==
    IF \E i \in 1..Len(s) : ~IsSpace(s[i])
    THEN SetMin({i \in 1..Len(s) : ~IsSpace(s[i])}) - 1
    ELSE Len(s)

SkipSpace(s) == From(s, SpaceLen(s))

NoMatch == [matched |-> FALSE, indent |-> <<>>, blh_name |-> <<>>]

\* BLH_INCLUDE_PATTERN.match(line): ^(\s*)#\s*include\s*"([^"]*\.blh)" ignoring case
include_match(line) ==
    LET indent == SpaceLen(line)
        r1 == From(line, indent)
    IN  IF ~StartsWith(r1, <<"#">>) THEN NoMatch
        ELSE LET r2 == SkipSpace(From(r1, 1))
             IN  IF ~StartsWith(LowerAll(r2), <<"i","n","c","l","u","d","e">>) THEN NoMatch
                 ELSE LET r3 == SkipSpace(From(r2, 7))
                      IN  IF ~StartsWith(r3, <<"\"">>) THEN NoMatch
                          ELSE LET r4 == From(r3, 1)
                                   close == Find(r4, <<"\"">>)
                               IN  IF close < 0 THEN NoMatch
                                   ELSE LET name == Slice(r4, 0, close)
                                        IN  IF EndsWith(LowerAll(name), <<".","b","l","h">>)
                                            THEN [matched |-> TRUE,
                                                  indent |-> Slice(line, 0, indent),
                                                  blh_name |-> name]
                                            ELSE NoMatch

\* the lines the files of the model are made of
FileLines == {<<"#","i","n","c","l","u","d","e"," ","\"","r",".","b","l","h","\"","\n">>, <<"#","i","n","c","l","u","d","e"," ","\"","a",".","b","l","h","\"","\n">>, <<" "," ","#"," ","I","n","c","l","u","d","e"," ","\"","b",".","B","L","H","\"","\n">>, <<"i","n","t"," ","x",";","\n">>}

\* the match of every line of the model, computed once
MatchTable == [line \in FileLines |-> include_match(line)]

match_line(line) ==
    IF line \in DOMAIN MatchTable THEN MatchTable[line] ELSE include_match(line)

NoPath == <<>>

\* a resolution in which the last search directory that has the file wins
RECURSIVE resolve_last_match(_, _, _)
resolve_last_match(files, filename, search_dirs) ==
    IF search_dirs = <<>> THEN NoPath
    ELSE IF <<search_dirs[Len(search_dirs)], filename>> \in DOMAIN files
         THEN <<search_dirs[Len(search_dirs)], filename>>
         ELSE resolve_last_match(files, filename, SubSeq(search_dirs, 1, Len(search_dirs) - 1))

\* resolve_include (lines 1282-1296): the first search directory that has the file
RECURSIVE resolve_include(_, _, _)
resolve_include(files, filename, search_dirs) ==
    IF search_dirs = <<>> THEN NoPath
    ELSE IF <<Head(search_dirs), filename>> \in DOMAIN files
         THEN <<Head(search_dirs), filename>>
         ELSE resolve_include(files, filename, Tail(search_dirs))

\* d[k] = v on a dict
DictPut(d, k, v) == [x \in (DOMAIN d) \cup {k} |-> IF x = k THEN v ELSE d[x]]

\* one activation of expand_blh_includes after it read its file (lines 1319-1333)
NewActivation(path) ==
    [source_path |-> path,
     search_dirs |-> <<path[1]>> \o include_dirs,
     source_lines |-> fs[path],
     src_line_num |-> 1,
     lines |-> <<>>,
     line_map |-> <<>>]

\* the activation that is running, its current line and what the line resolves to
Active == exp_stack[Len(exp_stack)]
ActiveLine == Active.source_lines[Active.src_line_num]
ActiveMatch == match_line(ActiveLine)
ActivePath == resolve_include(fs, ActiveMatch.blh_name, Active.search_dirs)
InLoop == exp_pc = "run" /\ Active.src_line_num <= Len(Active.source_lines)

ReplaceActive(f) == [exp_stack EXCEPT ![Len(exp_stack)] = f]

\* lines 1346-1348 and 1367-1369: append the line with its own location
keep_line(f) ==
    LET output_line == Len(f.lines) + 1
    IN  [f EXCEPT !.lines = Append(f.lines, f.source_lines[f.src_line_num]),
                  !.line_map = DictPut(f.line_map, output_line,
                                       <<f.source_path, f.src_line_num>>),
                  !.src_line_num = f.src_line_num + 1]

\* a splice that gives the lines of the header the location of the include line
splice_at_include_line(f, sub_lines, sub_map) ==
    LET base_output_line == Len(f.lines)
        added == {base_output_line + i + 1 : i \in 0..(Len(sub_lines) - 1)}
    IN  [f EXCEPT !.lines = f.lines \o sub_lines,
                  !.line_map = [x \in (DOMAIN f.line_map) \cup added |->
                                   IF x \in added THEN <<f.source_path, f.src_line_num>>
                                   ELSE f.line_map[x]]]

\* lines 1359-1364: append the lines a sub-expansion returned, output line
\* base_output_line + i + 1 taking the location sub_map[i + 1]
splice(f, sub_lines, sub_map) ==
    LET base_output_line == Len(f.lines)
        added == {base_output_line + i + 1 : i \in 0..(Len(sub_lines) - 1)}
    IN  [f EXCEPT !.lines = f.lines \o sub_lines,
                  !.line_map = [x \in (DOMAIN f.line_map) \cup added |->
                                   IF x \in added THEN sub_map[x - base_output_line]
                                   ELSE f.line_map[x]]]

\* the outermost call opens the root file (lines 1319-1331)
ExpandOpen ==
    /\ exp_pc = "call"
    /\ root \in DOMAIN fs
    /\ exp_stack' = <<NewActivation(root)>>
    /\ exp_pc' = "run"
    /\ UNCHANGED <<fs, root, include_dirs, included_files, exp_result, exp_error, cvars, pvars, wvars>>

\* the root file does not exist (lines 1332-1333)
ExpandOpenFails ==
    /\ exp_pc = "call"
    /\ root \notin DOMAIN fs
    /\ exp_pc' = "raised"
    /\ exp_error' = root
    /\ UNCHANGED <<fs, root, include_dirs, exp_stack, included_files, exp_result, cvars, pvars, wvars>>

\* a line that is no .blh include (lines 1365-1369)
ExpandRegularLine ==
    /\ InLoop
    /\ ~ActiveMatch.matched
    /\ exp_stack' = ReplaceActive(keep_line(Active))
    /\ UNCHANGED <<fs, root, include_dirs, exp_pc, included_files, exp_result, exp_error, cvars, pvars, wvars>>

\* an unresolved include that is dropped
ExpandUnresolvedDropsLine ==
    /\ InLoop
    /\ ActiveMatch.matched
    /\ ActivePath = NoPath
    /\ exp_stack' = ReplaceActive([Active EXCEPT !.src_line_num = @ + 1])
    /\ UNCHANGED <<fs, root, include_dirs, exp_pc, included_files, exp_result, exp_error, cvars, pvars, wvars>>

\* an include of a header that no search directory has (lines 1343-1348)
ExpandUnresolved ==
    /\ InLoop
    /\ ActiveMatch.matched
    /\ ActivePath = NoPath
    /\ exp_stack' = ReplaceActive(keep_line(Active))
    /\ UNCHANGED <<fs, root, include_dirs, exp_pc, included_files, exp_result, exp_error, cvars, pvars, wvars>>

\* an include of a header that is in the included-set (lines 1349-1352)
ExpandSkip ==
    /\ InLoop
    /\ ActiveMatch.matched
    /\ ActivePath # NoPath
    /\ ActivePath \in included_files
    /\ exp_stack' = ReplaceActive([Active EXCEPT !.src_line_num = @ + 1])
    /\ UNCHANGED <<fs, root, include_dirs, exp_pc, included_files, exp_result, exp_error, cvars, pvars, wvars>>

\* an expansion that keeps no included-set
ExpandEnterUnguarded ==
    /\ InLoop
    /\ ActiveMatch.matched
    /\ ActivePath # NoPath
    /\ exp_stack' = Append(exp_stack, NewActivation(ActivePath))
    /\ UNCHANGED <<fs, root, include_dirs, exp_pc, included_files, exp_result, exp_error, cvars, pvars, wvars>>

\* an include of a header seen for the first time (lines 1353-1356): the call
ExpandEnter ==
    /\ InLoop
    /\ ActiveMatch.matched
    /\ ActivePath # NoPath
    /\ ActivePath \notin included_files
    /\ included_files' = included_files \cup {ActivePath}
    /\ exp_stack' = Append(exp_stack, NewActivation(ActivePath))
    /\ UNCHANGED <<fs, root, include_dirs, exp_pc, exp_result, exp_error, cvars, pvars, wvars>>

\* a sub-expansion returns (line 1371) and its caller splices it (lines 1359-1364)
ExpandReturn ==
    /\ exp_pc = "run"
    /\ Len(exp_stack) > 1
    /\ Active.src_line_num > Len(Active.source_lines)
    /\ LET caller == exp_stack[Len(exp_stack) - 1]
           spliced == splice(caller, Active.lines, Active.line_map)
       IN  exp_stack' = Append(SubSeq(exp_stack, 1, Len(exp_stack) - 2),
                               [spliced EXCEPT !.src_line_num = @ + 1])
    /\ UNCHANGED <<fs, root, include_dirs, exp_pc, included_files, exp_result, exp_error, cvars, pvars, wvars>>

\* the outermost call returns (line 1371)
ExpandFinish ==
    /\ exp_pc = "run"
    /\ Len(exp_stack) = 1
    /\ Active.src_line_num > Len(Active.source_lines)
    /\ exp_result' = [lines |-> Active.lines, line_map |-> Active.line_map]
    /\ exp_stack' = <<>>
    /\ exp_pc' = "done"
    /\ UNCHANGED <<fs, root, include_dirs, included_files, exp_error, cvars, pvars, wvars>>

NextExpand ==
    \/ ExpandOpen
    \/ ExpandOpenFails
    \/ ExpandRegularLine
    \/ ExpandUnresolved
    \/ ExpandSkip
    \/ ExpandEnter
    \/ ExpandReturn
    \/ ExpandFinish

\* ------------------------------------------------------------------------
\* Specifications
\* ------------------------------------------------------------------------

\* the header expansion is not running
ExpandIdle ==
    /\ fs = <<>>
    /\ root = NoPath
    /\ include_dirs = <<>>
    /\ exp_pc = "idle"
    /\ exp_stack = <<>>
    /\ included_files = {}
    /\ exp_result = [lines |-> <<>>, line_map |-> <<>>]
    /\ exp_error = NoPath

\* no call of patch_compiler_output
PatchIdle ==
    /\ compiler_output = <<>>
    /\ file_mappings = <<>>
    /\ error_format = "GNU"
    /\ patched_lines = <<>>
    /\ patch_pc = "idle"

\* no call of run_compiler_wrapper
NoCode == -1
WrapperIdle ==
    /\ wrapper_pc = "idle"
    /\ keep_temp = FALSE
    /\ blcpp_files = <<>>
    /\ temp_dir = "none"
    /\ temp_files = {}
    /\ returncode = NoCode

Next == Step \/ Finish
NextTwice == Step \/ Finish \/ Recompile

\* braceless blocks: openers, bodies, a condition without its colon, blank and
\* comment lines
MaxLines == 4
BlockLines == {<<"i","f"," ","x",":">>, <<" "," "," "," ","y">>, <<"y">>, <<"i","f"," ","x">>, <<" "," "," "," "," "," "," "," ","z",":">>, <<>>, <<" "," "," "," ","/","/"," ","c">>}
Init == CompilerInit(SeqsUpTo(BlockLines, MaxLines), "run") /\ ExpandIdle /\ PatchIdle /\ WrapperIdle
Spec == Init /\ [][Next]_vars

\* do blocks: the opener, plain, nested braceless and nested braced bodies, the
\* while clause
MaxDoLines == 4
DoLines == {<<"d","o",":">>, <<" "," "," "," ","x">>, <<" "," "," "," ","i","f"," ","y",":">>, <<" "," "," "," "," "," "," "," ","z">>, <<" "," "," "," ","i","f"," ","(","y",")"," ","{">>, <<" "," "," "," ","}">>, <<"w","h","i","l","e"," ","c">>}
InitDo == CompilerInit(SeqsUpTo(DoLines, MaxDoLines), "run") /\ ExpandIdle /\ PatchIdle /\ WrapperIdle
SpecDo == InitDo /\ [][Next]_vars

\* the translator applied to its own output
SpecTwice == InitDo /\ [][NextTwice]_vars

\* C++ that has its braces
MaxBracedLines == 4
BracedLines == {<<"v","o","i","d"," ","f","(",")"," ","{">>, <<" "," "," "," ","x",";">>, <<" "," "," "," ","y">>, <<"}">>, <<"/","/"," ","c">>, <<" "," "," "," ","/","/"," ","c">>, <<"#","d","e","f","i","n","e"," ","N">>}
InitBraced == CompilerInit(SeqsUpTo(BracedLines, MaxBracedLines), "run") /\ ExpandIdle /\ PatchIdle /\ WrapperIdle
SpecBraced == InitBraced /\ [][Next]_vars

\* classes with access specifiers, braceless and braced methods
MaxAccessLines == 4
AccessLines == {<<"c","l","a","s","s"," ","C",":">>, <<"s","t","r","u","c","t"," ","S",":">>, <<" "," "," "," ","v","o","i","d"," ","f","(",")",":">>, <<" "," "," "," "," "," "," "," ","x">>, <<" "," "," "," ","v","o","i","d"," ","g","(",")"," ","{">>,
                <<"p","u","b","l","i","c",":">>, <<" "," "," "," ","p","r","i","v","a","t","e",":">>, <<" "," "," "," ","i","n","t"," ","y">>}
InitAccess == CompilerInit(SeqsUpTo(AccessLines, MaxAccessLines), "run") /\ ExpandIdle /\ PatchIdle /\ WrapperIdle
SpecAccess == InitAccess /\ [][Next]_vars

\* files of an expansion: the root file and two headers, each present or not
MaxFileLines == 2
RootPath == <<"/p", <<"r",".","b","l","h">>>>
HeaderPaths == {<<"/p", <<"a",".","b","l","h">>>>, <<"/q", <<"b",".","B","L","H">>>>}
FileSystems ==
    UNION {[P -> SeqsUpTo(FileLines, MaxFileLines)] : P \in SUBSET (HeaderPaths \cup {RootPath})}
IncludeDirs == {<<>>, <<"/q">>, <<"/q", "/p">>}

InitExpand ==
    /\ CompilerInit({<<>>}, "idle")
    /\ fs \in FileSystems
    /\ root = RootPath
    /\ include_dirs \in IncludeDirs
    /\ exp_pc = "call"
    /\ exp_stack = <<>>
    /\ included_files = {}
    /\ exp_result = [lines |-> <<>>, line_map |-> <<>>]
    /\ exp_error = NoPath
    /\ PatchIdle
    /\ WrapperIdle

SpecExpand == InitExpand /\ [][NextExpand]_vars
SpecExpandFair == SpecExpand /\ WF_vars(NextExpand)

\* files for the search order: a root in a directory of its own, a header of the
\* same name in two directories, a header that includes it from one of them
MaxResolveLines == 1
ResolveLines == {<<"#","i","n","c","l","u","d","e"," ","\"","a",".","b","l","h","\"","\n">>, <<" "," ","#"," ","I","n","c","l","u","d","e"," ","\"","b",".","B","L","H","\"","\n">>, <<"i","n","t"," ","x",";","\n">>}
ResolveRoot == <<"/s", <<"r",".","b","l","h">>>>
ResolveHeaders == {<<"/p", <<"a",".","b","l","h">>>>, <<"/q", <<"a",".","b","l","h">>>>, <<"/q", <<"b",".","B","L","H">>>>}
ResolveFileSystems ==
    UNION {[P -> SeqsUpTo(ResolveLines, MaxResolveLines)] :
              P \in SUBSET (ResolveHeaders \cup {ResolveRoot})}
ResolveDirs == {<<>>, <<"/p", "/q">>, <<"/q", "/p">>}

InitResolve ==
    /\ CompilerInit({<<>>}, "idle")
    /\ fs \in ResolveFileSystems
    /\ root = ResolveRoot
    /\ include_dirs \in ResolveDirs
    /\ exp_pc = "call"
    /\ exp_stack = <<>>
    /\ included_files = {}
    /\ exp_result = [lines |-> <<>>, line_map |-> <<>>]
    /\ exp_error = NoPath
    /\ PatchIdle
    /\ WrapperIdle

SpecResolve == InitResolve /\ [][NextExpand]_vars

\* statements that leave ( or [ open, their following lines, a plain statement
MaxParenLines == 4
ParenLines == {<<"x"," ","="," ","f","(","a",",">>, <<" "," "," "," ","b",",">>, <<" "," "," "," ","b",")">>, <<"y"," ","="," ","g","[">>, <<" "," "," "," ","1","]">>, <<"z">>}
InitParen == CompilerInit(SeqsUpTo(ParenLines, MaxParenLines), "run") /\ ExpandIdle /\ PatchIdle /\ WrapperIdle
SpecParen == InitParen /\ [][Next]_vars

\* lambdas, a class, a switch and an if, a body line, and lines that end or
\* go on with the expression a lambda stands in
MaxLambdaLines == 4
LambdaLines == {<<"f"," ","="," ","[","]","(","i","n","t"," ","a",")",":">>, <<" "," "," "," ","r","e","t","u","r","n"," ","a">>, <<"x">>, <<")">>, <<","," ","b">>, <<"c","l","a","s","s"," ","C",":">>, <<"s","w","i","t","c","h"," ","x",":">>, <<" "," "," "," ","i","f"," ","x",":">>}
InitLambda == CompilerInit(SeqsUpTo(LambdaLines, MaxLambdaLines), "run") /\ ExpandIdle /\ PatchIdle /\ WrapperIdle
SpecLambda == InitLambda /\ [][Next]_vars

\* openers that span several physical lines: a signature left open by "(", a
\* condition without parentheses, their last lines with the colon, a body
MaxOpenerLines == 4
OpenerLines == {<<"v","o","i","d"," ","f","(","a",",">>, <<" "," "," "," ","b">>, <<" "," "," "," "," "," "," "," ","c",")",":">>, <<" "," "," "," "," "," "," "," "," "," "," "," ","x">>, <<"y">>, <<" "," "," "," ","i","f"," ","a"," ","&","&">>, <<" "," ","b",":">>}
InitOpener == CompilerInit(SeqsUpTo(OpenerLines, MaxOpenerLines), "run") /\ ExpandIdle /\ PatchIdle /\ WrapperIdle
SpecOpener == InitOpener /\ [][Next]_vars

\* enums and an enum class, their items, a class, statements inside and
\* outside of them, one of them on two lines
MaxEnumLines == 4
EnumLines == {<<"e","n","u","m"," ","E",":">>, <<"e","n","u","m"," ","c","l","a","s","s"," ","F",":">>, <<" "," "," "," ","A",",">>, <<" "," "," "," ","B"," ","="," ","1">>, <<"x">>, <<" "," "," "," ","i","n","t"," ","y">>, <<"c","l","a","s","s"," ","C",":">>, <<" "," "," "," ","f","(","a",")">>, <<" "," "," "," ","g","(","a",",">>, <<" "," "," "," "," "," "," "," ","b",")">>}
InitEnum == CompilerInit(SeqsUpTo(EnumLines, MaxEnumLines), "run") /\ ExpandIdle /\ PatchIdle /\ WrapperIdle
SpecEnum == InitEnum /\ [][Next]_vars

\* a switch, its labels, a block nested under a label, statements
MaxSwitchLines == 5
SwitchLines == {<<"s","w","i","t","c","h"," ","v",":">>, <<" "," "," "," ","c","a","s","e"," ","1",":">>, <<" "," "," "," "," "," "," "," ","i","f"," ","a",":">>, <<" "," "," "," "," "," "," "," "," "," "," "," ","x">>, <<" "," "," "," ","d","e","f","a","u","l","t",":">>, <<"y">>}
InitSwitch == CompilerInit(SeqsUpTo(SwitchLines, MaxSwitchLines), "run") /\ ExpandIdle /\ PatchIdle /\ WrapperIdle
SpecSwitch == InitSwitch /\ [][Next]_vars

\* block-starters of one line: a control keyword and a condition made of at
\* most MaxConditionTokens tokens, with its parentheses properly nested
MaxConditionTokens == 5
ConditionTokens == {<<"(">>, <<")">>, <<"a">>, <<" ","&","&"," ">>}
ControlKeywords == {<<"i","f">>, <<"f","o","r">>, <<"w","h","i","l","e">>, <<"s","w","i","t","c","h">>, <<"e","l","s","e"," ","i","f">>}

RECURSIVE Flatten(_)
Flatten(parts) == IF parts = <<>> THEN <<>> ELSE Head(parts) \o Flatten(Tail(parts))

\* ( minus ) among the first i characters of c
Depth(c, i) ==
    Cardinality({j \in 1..i : c[j] = "("}) - Cardinality({j \in 1..i : c[j] = ")"})

Nested(c) == Depth(c, Len(c)) = 0 /\ \A i \in 1..Len(c) : Depth(c, i) >= 0

Conditions ==
    {c \in {Flatten(ts) : ts \in SeqsUpTo(ConditionTokens, MaxConditionTokens)} :
        c # <<>> /\ Nested(c)}

Header(kw, c) == kw \o <<" ">> \o c \o <<":">>

InitWrap ==
    /\ CompilerInit({<<Header(kw, c)>> : kw \in ControlKeywords, c \in Conditions}, "run")
    /\ ExpandIdle /\ PatchIdle /\ WrapperIdle
SpecWrap == InitWrap /\ [][Next]_vars

\* an if block, an else clause, a catch clause, and what may lie between a
\* block and its clause: a blank line, a comment, an author's brace
MaxElseLines == 4
ElseLines == {<<"i","f"," ","a",":">>, <<" "," "," "," ","x">>, <<>>, <<"e","l","s","e",":">>, <<"c","a","t","c","h"," ","(","E"," ","e",")",":">>, <<" "," "," "," ","/","/"," ","c">>, <<"}">>}
InitElse == CompilerInit(SeqsUpTo(ElseLines, MaxElseLines), "run") /\ ExpandIdle /\ PatchIdle /\ WrapperIdle
SpecElse == InitElse /\ [][Next]_vars

\* block-starters, pass at several indents, statements
MaxPassLines == 4
PassLines == {<<"i","f"," ","a",":">>, <<" "," "," "," ","i","f"," ","b",":">>, <<"p","a","s","s">>, <<" "," "," "," ","p","a","s","s">>, <<" "," "," "," "," "," "," "," ","p","a","s","s">>, <<"x">>, <<" "," "," "," ","x">>}
InitPass == CompilerInit(SeqsUpTo(PassLines, MaxPassLines), "run") /\ ExpandIdle /\ PatchIdle /\ WrapperIdle
SpecPass == InitPass /\ [][Next]_vars

\* block comments of one and of two lines around a block, a blank line, an
\* open call and an open condition
MaxCommentLines == 4
CommentLines == {<<"i","f"," ","a",":">>, <<" "," "," "," ","x">>, <<>>, <<"/","*"," ","c">>, <<"d"," ","*","/">>, <<"/","*"," ","c"," ","*","/">>, <<"x"," ","="," ","f","(","a",",">>, <<"i","f"," ","(","a"," ","&","&">>, <<"y">>}
InitComment == CompilerInit(SeqsUpTo(CommentLines, MaxCommentLines), "run") /\ ExpandIdle /\ PatchIdle /\ WrapperIdle
SpecComment == InitComment /\ [][Next]_vars

\* statements with "/*" and parentheses inside string literals and behind "//"
MaxLiteralLines == 4
LiteralLines == {<<"x"," ","="," ","\"","/","*","\"">>, <<"y">>, <<"x"," ","="," ","f","(","a",",">>, <<" "," "," "," ","\"","(","\"",",">>, <<" "," "," "," ","b",")">>, <<"y"," ","/","/"," ","/","*">>, <<" "," "," "," ","c",")"," ","/","/"," ","(">>, <<"i","f"," ","a",":">>}
InitLiteral == CompilerInit(SeqsUpTo(LiteralLines, MaxLiteralLines), "run") /\ ExpandIdle /\ PatchIdle /\ WrapperIdle
SpecLiteral == InitLiteral /\ [][Next]_vars

\* preprocessor lines in front of, inside and behind blocks
MaxPreprocessorLines == 4
PreprocessorLines == {<<"#","i","n","c","l","u","d","e"," ","<","v","e","c","t","o","r",">">>, <<"#","d","e","f","i","n","e"," ","A"," ","1">>, <<"#","d","e","f","i","n","e"," ","B","(">>, <<"i","n","t"," ","f","(",")"," ","{">>, <<"}">>, <<"x">>, <<" "," "," "," ","x">>, <<"i","f"," ","a",":">>}
InitPreprocessor == CompilerInit(SeqsUpTo(PreprocessorLines, MaxPreprocessorLines), "run") /\ ExpandIdle /\ PatchIdle /\ WrapperIdle
SpecPreprocessor == InitPreprocessor /\ [][Next]_vars

\* lambda assignments with the author's braces, at the top and inside a function
MaxBracedLambdaLines == 4
BracedLambdaLines == {<<"a","u","t","o"," ","f"," ","="," ","[","]","(",")","{">>, <<" "," "," "," ","x">>, <<" "," "," "," ","y">>, <<"}">>, <<"z">>, <<"i","n","t"," ","g","(",")"," ","{">>, <<" "," "," "," ","a","u","t","o"," ","f"," ","="," ","[","]","(",")","{">>, <<" "," "," "," "," "," "," "," ","x">>, <<" "," "," "," ","}">>}
InitBracedLambda == CompilerInit(SeqsUpTo(BracedLambdaLines, MaxBracedLambdaLines), "run") /\ ExpandIdle /\ PatchIdle /\ WrapperIdle
SpecBracedLambda == InitBracedLambda /\ [][Next]_vars

\* braceless blocks, a do block, the author's braces behind a condition
\* without parentheses, a condition of two lines, and lines between the indents
MaxFrameLines == 4
FrameLines == {<<"i","f"," ","a",":">>, <<" "," "," "," ","x">>, <<" "," ","y">>, <<"i","f"," ","b"," ","{">>, <<"}">>, <<"d","o",":">>, <<"i","f"," ","c"," ","&","&">>, <<" "," "," "," ","d",":">>}
InitFrames == CompilerInit(SeqsUpTo(FrameLines, MaxFrameLines), "run") /\ ExpandIdle /\ PatchIdle /\ WrapperIdle
SpecFrames == InitFrames /\ [][Next]_vars

\* blocks that the input leaves open: if, do without while, class, the
\* author's brace
MaxDrainLines == 4
DrainLines == {<<"i","f"," ","a",":">>, <<" "," "," "," ","d","o",":">>, <<" "," "," "," "," "," "," "," ","x">>, <<" "," "," "," ","x">>, <<"d","o",":">>, <<"c","l","a","s","s"," ","C",":">>, <<"i","n","t"," ","f","(",")"," ","{">>, <<" "," "," "," ","w","h","i","l","e"," ","b",":">>}
InitDrain == CompilerInit(SeqsUpTo(DrainLines, MaxDrainLines), "run") /\ ExpandIdle /\ PatchIdle /\ WrapperIdle
SpecDrain == InitDrain /\ [][Next]_vars

\* openers with square brackets: an array parameter, a lambda, a subscript in
\* a condition
MaxSubscriptLines == 4
SubscriptLines == {<<"v","o","i","d"," ","f","(","i","n","t"," ","a","[","]",")",":">>, <<"f"," ","="," ","[","]","(","i","n","t"," ","a",")",":">>, <<"i","f"," ","a","[","0","]",":">>, <<" "," "," "," ","x">>, <<"y">>, <<" "," "," "," "," "," "," "," ","z">>, <<" "," "," "," ","g"," ","="," ","[","&","]",":">>}
InitSubscript == CompilerInit(SeqsUpTo(SubscriptLines, MaxSubscriptLines), "run") /\ ExpandIdle /\ PatchIdle /\ WrapperIdle
SpecSubscript == InitSubscript /\ [][Next]_vars

\* LineMapper.get_source_line (lines 1210-1215): the tag at index output_line - 1
\* of the tracked output, the queried number itself when the index is out of range
get_source_line(tags, output_line) ==
    LET idx == output_line - 1
    IN  IF 0 <= idx /\ idx < Len(tags) THEN tags[idx + 1] ELSE output_line

\* the file name get_source_location gives for a line it has no entry for
UnknownFile == <<"", <<"<","u","n","k","n","o","w","n",">">>>>

\* SourceLocationMapper.get_source_location (lines 1417-1429)
get_source_location(blh_map, tags, transpiled_line) ==
    LET expanded_line == get_source_line(tags, transpiled_line)
    IN  IF expanded_line \in DOMAIN blh_map THEN blh_map[expanded_line]
        ELSE <<UnknownFile, expanded_line>>

\* Compiler.__init__ (line 31): line.rstrip('\n\r')
RECURSIVE without_line_end(_)
without_line_end(line) ==
    IF line # <<>> /\ line[Len(line)] \in {"\n", "\r"}
    THEN without_line_end(SubSeq(line, 1, Len(line) - 1))
    ELSE line

\* a transpile_file that goes on with no lines after the expansion failed
TranspileAfterError ==
    /\ exp_pc \in {"done", "raised"}
    /\ pc = "idle"
    /\ Becomes(NewCompiler([i \in 1..Len(exp_result.lines) |->
                               without_line_end(exp_result.lines[i])]))
    /\ pc' = "run"
    /\ UNCHANGED <<run, first_text, evars, pvars, wvars>>

\* transpile_file (lines 1447-1451): the expanded lines go to a MappingCompiler
Transpile ==
    /\ exp_pc = "done"
    /\ pc = "idle"
    /\ Becomes(NewCompiler([i \in 1..Len(exp_result.lines) |->
                               without_line_end(exp_result.lines[i])]))
    /\ pc' = "run"
    /\ UNCHANGED <<run, first_text, evars, pvars, wvars>>

\* transpile_file: expansion, then translation of the expanded lines
NextTranspile == NextExpand \/ Transpile \/ Step \/ Finish

\* the mapper transpile_file returns (line 1458), asked for generated line k
source_location(k) == get_source_location(exp_result.line_map, source_lines, k)

\* a root and one header, of statements, includes and a condition without colon
MaxTranspileLines == 3
TranspileLines == {<<"#","i","n","c","l","u","d","e"," ","\"","r",".","b","l","h","\"","\n">>, <<"#","i","n","c","l","u","d","e"," ","\"","a",".","b","l","h","\"","\n">>, <<"i","n","t"," ","x",";","\n">>, <<"i","f"," ","x","\n">>}
TranspileFileSystems ==
    UNION {[P -> SeqsUpTo(TranspileLines, MaxTranspileLines)] :
              P \in SUBSET {RootPath, <<"/p", <<"a",".","b","l","h">>>>}}

InitTranspile ==
    /\ CompilerInit({<<>>}, "idle")
    /\ fs \in TranspileFileSystems
    /\ root = RootPath
    /\ include_dirs = <<>>
    /\ exp_pc = "call"
    /\ exp_stack = <<>>
    /\ included_files = {}
    /\ exp_result = [lines |-> <<>>, line_map |-> <<>>]
    /\ exp_error = NoPath
    /\ PatchIdle
    /\ WrapperIdle

SpecTranspile == InitTranspile /\ [][NextTranspile]_vars

\* output_path of transpile_file
OutputPath == <<"/p", <<"r",".","c","p","p">>>>

\* what readlines() returns for the text compile returned
written_lines(out) ==
    IF out = <<>> THEN <<<<"\n">>>> ELSE [i \in 1..Len(out) |-> out[i] \o <<"\n">>]

\* transpile_file (lines 1453-1458): the text is written to output_path and
\* the mapper is returned
WriteOutput ==
    /\ exp_pc = "done"
    /\ pc = "done"
    /\ fs' = [p \in DOMAIN fs \cup {OutputPath} |->
                 IF p = OutputPath THEN written_lines(output) ELSE fs[p]]
    /\ pc' = "returned"
    /\ UNCHANGED <<lines, output, source_lines, current,
                   indent_stack, block_type_stack, whitespace_stack,
                   in_block_comment, continuation_indent, pending_blank_lines,
                   paren_depth, control_keyword, control_condition_lines,
                   control_start_indent, closing_log, run, first_text,
                   root, include_dirs, exp_pc, exp_stack, included_files,
                   exp_result, exp_error, pvars, wvars>>

\* transpile_file as a whole
NextTranspileFile == NextTranspile \/ WriteOutput
SpecTranspileFile == InitTranspile /\ [][NextTranspileFile]_vars

\* ------------------------------------------------------------------------
\* patch_compiler_output: the compiler's diagnostics mapped back to the
\* original files (POSIX paths)
\* ------------------------------------------------------------------------

\* str.lower on the letters A-Z
lower(s) ==
    LET upper_case == <<"A","B","C","D","E","F","G","H","I","J","K","L","M","N","O","P","Q","R","S","T","U","V","W","X","Y","Z">>
        lower_case == <<"a","b","c","d","e","f","g","h","i","j","k","l","m","n","o","p","q","r","s","t","u","v","w","x","y","z">>
    IN  [i \in 1..Len(s) |->
            IF \E k \in 1..26 : upper_case[k] = s[i]
            THEN lower_case[CHOOSE k \in 1..26 : upper_case[k] = s[i]]
            ELSE s[i]]

\* os.path.basename: what follows the last "/"
basename(path) == From(path, RFind(path, <<"/">>) + 1)

\* str.split on one character, and str.join
RECURSIVE split(_, _)
split(s, c) ==
    IF Find(s, <<c>>) = -1 THEN <<s>>
    ELSE <<Slice(s, 0, Find(s, <<c>>))>> \o split(From(s, Find(s, <<c>>) + 1), c)

RECURSIVE join(_, _)
join(comps, c) ==
    IF comps = <<>> THEN <<>>
    ELSE IF Len(comps) = 1 THEN comps[1]
    ELSE comps[1] \o <<c>> \o join(Tail(comps), c)

\* os.path.normpath: the loop over the components of the path
RECURSIVE normpath_comps(_, _, _)
normpath_comps(comps, new_comps, initial_slashes) ==
    IF comps = <<>> THEN new_comps
    ELSE LET comp == Head(comps)
         IN  IF comp \in {<<>>, <<".">>}
             THEN normpath_comps(Tail(comps), new_comps, initial_slashes)
             ELSE IF \/ comp # <<".",".">>
                     \/ initial_slashes = 0 /\ new_comps = <<>>
                     \/ new_comps # <<>> /\ Top(new_comps) = <<".",".">>
             THEN normpath_comps(Tail(comps), Append(new_comps, comp), initial_slashes)
             ELSE IF new_comps # <<>>
             THEN normpath_comps(Tail(comps), Pop(new_comps), initial_slashes)
             ELSE normpath_comps(Tail(comps), new_comps, initial_slashes)

\* _normalize_path (lines 1593-1595): normcase changes nothing on POSIX
normalize_path(path) ==
    LET initial_slashes ==
            IF ~StartsWith(path, <<"/">>) THEN 0
            ELSE IF StartsWith(path, <<"/","/">>) /\ ~StartsWith(path, <<"/","/","/">>) THEN 2
            ELSE 1
        joined == join(normpath_comps(split(path, "/"), <<>>, initial_slashes), "/")
        full == [i \in 1..initial_slashes |-> "/"] \o joined
    IN  IF full = <<>> THEN <<".">> ELSE full

\* _paths_match (lines 1598-1602)
paths_match(path1, path2) ==
    \/ normalize_path(path1) = normalize_path(path2)
    \/ lower(basename(path1)) = lower(basename(path2))

\* _build_basename_map (lines 1605-1612): the temp path of a base name, the
\* last one in the order of file_mappings; 0 if the base name is no key
basename_to_temp(mappings, name) ==
    LET keys == {k \in 1..Len(mappings) :
                    /\ EndsWith(lower(basename(mappings[k].temp_path)), <<".","c","p","p">>)
                    /\ lower(basename(mappings[k].temp_path)) = name}
    IN  IF keys = {} THEN 0 ELSE SetMax(keys)

\* int() of a string of digits, and str() of a natural number
RECURSIVE to_int(_)
to_int(digits) ==
    IF digits = <<>> THEN 0
    ELSE 10 * to_int(Pop(digits))
         + (CHOOSE d \in 0..9 : <<"0","1","2","3","4","5","6","7","8","9">>[d + 1] = Top(digits))

RECURSIVE to_str(_)
to_str(n) ==
    IF n < 10 THEN <<<<"0","1","2","3","4","5","6","7","8","9">>[n + 1]>>
    ELSE to_str(n \div 10) \o <<<<"0","1","2","3","4","5","6","7","8","9">>[(n % 10) + 1]>>

\* the number of characters of text from 0-based position i on that are in chars
RECURSIVE run_length(_, _, _)
run_length(text, i, chars) ==
    IF i < Len(text) /\ text[i + 1] \in chars
    THEN 1 + run_length(text, i + 1, chars)
    ELSE 0

Digits == {"0", "1", "2", "3", "4", "5", "6", "7", "8", "9"}
RegexSpace == {" ", "\t", "\r", "\f"}

\* \s*(error|warning|note|fatal error) with IGNORECASE, at 0-based position i
severity_at(text, i) ==
    LET rest == lower(From(text, i + run_length(text, i, RegexSpace)))
    IN  \E word \in {<<"e","r","r","o","r">>, <<"w","a","r","n","i","n","g">>, <<"n","o","t","e">>, <<"f","a","t","a","l"," ","e","r","r","o","r">>} : StartsWith(rest, word)

NoDiagnostic == [matched |-> FALSE, filepath |-> <<>>, line_num |-> <<>>, column |-> <<>>]

\* GNU_ERROR_PATTERN.match (lines 1262-1265): i is the position of the colon
\* that ends the shortest possible file path
gnu_match(text) ==
    LET num_len(i) == run_length(text, i + 1, Digits)
        col_at(i) == i + 1 + num_len(i) + 1
        col_len(i) == run_length(text, col_at(i), Digits)
        after_col(i) ==
            IF col_at(i) + col_len(i) < Len(text) /\ text[col_at(i) + col_len(i) + 1] = ":"
            THEN col_at(i) + col_len(i) + 1 ELSE col_at(i) + col_len(i)
        ends == {i \in 1..(Len(text) - 1) :
                    /\ text[i + 1] = ":"
                    /\ num_len(i) >= 1
                    /\ col_at(i) <= Len(text)
                    /\ text[col_at(i)] = ":"
                    /\ severity_at(text, after_col(i))}
    IN  IF ends = {} THEN NoDiagnostic
        ELSE LET i == SetMin(ends)
             IN  [matched |-> TRUE, filepath |-> Slice(text, 0, i),
                  line_num |-> Slice(text, i + 1, i + 1 + num_len(i)),
                  column |-> Slice(text, col_at(i), col_at(i) + col_len(i))]

\* MSVC_ERROR_PATTERN.match (lines 1256-1259): i is the position of the "("
\* that ends the shortest possible file path
msvc_match(text) ==
    LET num_len(i) == run_length(text, i + 1, Digits)
        col_at(i) == i + 1 + num_len(i)
        col_len(i) ==
            IF /\ col_at(i) < Len(text)
               /\ text[col_at(i) + 1] = ","
               /\ run_length(text, col_at(i) + 1, Digits) >= 1
            THEN 1 + run_length(text, col_at(i) + 1, Digits) ELSE 0
        close_at(i) == col_at(i) + col_len(i)
        colon_at(i) == close_at(i) + 1 + run_length(text, close_at(i) + 1, RegexSpace)
        ends == {i \in 0..(Len(text) - 1) :
                    /\ text[i + 1] = "("
                    /\ num_len(i) >= 1
                    /\ close_at(i) < Len(text)
                    /\ text[close_at(i) + 1] = ")"
                    /\ colon_at(i) < Len(text)
                    /\ text[colon_at(i) + 1] = ":"
                    /\ severity_at(text, colon_at(i) + 1)}
    IN  IF ends = {} THEN NoDiagnostic
        ELSE LET i == SetMin(ends)
             IN  [matched |-> TRUE, filepath |-> Slice(text, 0, i),
                  line_num |-> Slice(text, i + 1, i + 1 + num_len(i)),
                  column |-> Slice(text, col_at(i), close_at(i))]

\* str.replace(old, new, 1)
replace_first(s, old, new) ==
    IF Find(s, old) = -1 THEN s
    ELSE Slice(s, 0, Find(s, old)) \o new \o From(s, Find(s, old) + Len(old))

\* the temp path a diagnostic's file is taken for (lines 1645-1654): its
\* place in file_mappings, 0 if none
matched_temp_path(mappings, filepath) ==
    LET matches == {k \in 1..Len(mappings) : paths_match(filepath, mappings[k].temp_path)}
    IN  IF matches # {} THEN SetMin(matches)
        ELSE basename_to_temp(mappings, lower(basename(filepath)))

\* the body of the loop of patch_compiler_output (lines 1639-1675)
patch_line(line, mappings, format) ==
    LET match == IF format = "MSVC" THEN msvc_match(line) ELSE gnu_match(line)
        filepath == match.filepath
        line_num == to_int(match.line_num)
        k == matched_temp_path(mappings, filepath)
        mapper == mappings[k].mapper
        location == get_source_location(mapper.blh_map, mapper.tags, line_num)
        original_path == location[1][2]
        source_line == location[2]
    IN  IF ~match.matched \/ k = 0 THEN line
        ELSE IF format = "MSVC"
        THEN replace_first(replace_first(line, filepath, original_path),
                           <<"(">> \o to_str(line_num) \o match.column \o <<")">>,
                           <<"(">> \o to_str(source_line) \o match.column \o <<")">>)
        ELSE IF match.column # <<>>
        THEN replace_first(line,
                           filepath \o <<":">> \o to_str(line_num) \o <<":">> \o match.column \o <<":">>,
                           original_path \o <<":">> \o to_str(source_line) \o <<":">> \o match.column \o <<":">>)
        ELSE replace_first(line,
                           filepath \o <<":">> \o to_str(line_num) \o <<":">>,
                           original_path \o <<":">> \o to_str(source_line) \o <<":">>)

\* one round of the loop (lines 1639-1675)
PatchLine ==
    /\ patch_pc = "run"
    /\ Len(patched_lines) < Len(compiler_output)
    /\ patched_lines' = Append(patched_lines,
                               patch_line(compiler_output[Len(patched_lines) + 1],
                                          file_mappings, error_format))
    /\ UNCHANGED <<compiler_output, file_mappings, error_format, patch_pc, cvars, evars, wvars>>

\* the loop is over and the lines are joined and returned (line 1677)
PatchReturn ==
    /\ patch_pc = "run"
    /\ Len(patched_lines) = Len(compiler_output)
    /\ patch_pc' = "done"
    /\ UNCHANGED <<compiler_output, file_mappings, error_format, patched_lines, cvars, evars, wvars>>

NextPatch == PatchLine \/ PatchReturn

\* the mapper of a generated file of four lines, made of a header of one line
\* and a root of two lines
MainMapper ==
    [blh_map |-> <<<<<<"", <<"/","s","/","a",".","b","l","h">>>>, 1>>, <<<<"", <<"/","s","/","m","a","i","n",".","b","l","c","p","p">>>>, 2>>,
                   <<<<"", <<"/","s","/","m","a","i","n",".","b","l","c","p","p">>>>, 3>>>>,
     tags |-> <<1, 2, 3, 3>>]

\* generated files, compiler messages about them and about other files
MaxOutputLines == 2
TempPaths == {<<"/","t","/","m","a","i","n",".","c","p","p">>, <<"/","t","/","u","t","i","l",".","c","p","p">>}
DiagnosticFiles == {<<"/","t","/","m","a","i","n",".","c","p","p">>, <<"/","t","/",".","/","m","a","i","n",".","c","p","p">>, <<"/","u","/","m","a","i","n",".","c","p","p">>, <<"/","u","/","M","A","I","N",".","C","P","P">>, <<"/","u","s","r","/","i","n","c","l","u","d","e","/","v","e","c","t","o","r">>}
DiagnosticTails == {<<":","2",":","5",":"," ","e","r","r","o","r",":"," ","e">>, <<":","4",":"," ","n","o","t","e",":"," ","n">>, <<":","0","3",":","1",":"," ","W","a","r","n","i","n","g",":"," ","w">>, <<":","9",":","1",":"," ","e","r","r","o","r",":"," ","e">>,
                    <<"(","2",")",":"," ","e","r","r","o","r"," ","C","1",":"," ","e">>, <<"(","4",",","5",")"," ",":"," ","f","a","t","a","l"," ","e","r","r","o","r"," ","C","2",":"," ","e">>}
OutputLines == {file \o tail : file \in DiagnosticFiles, tail \in DiagnosticTails}
                   \cup {<<"I","n"," ","f","i","l","e"," ","i","n","c","l","u","d","e","d"," ","f","r","o","m"," ","/","t","/","m","a","i","n",".","c","p","p",":","1",":">>, <<>>}
FileMappings ==
    {<<>>} \cup {<<[temp_path |-> p, mapper |-> MainMapper]>> : p \in TempPaths}
           \cup {<<[temp_path |-> pq[1], mapper |-> MainMapper],
                   [temp_path |-> pq[2], mapper |-> MainMapper]>> :
                     pq \in {pq \in TempPaths \X TempPaths : pq[1] # pq[2]}}

InitPatch ==
    /\ CompilerInit({<<>>}, "idle")
    /\ ExpandIdle
    /\ compiler_output \in SeqsUpTo(OutputLines, MaxOutputLines)
    /\ file_mappings \in FileMappings
    /\ error_format \in {"GNU", "MSVC"}
    /\ patched_lines = <<>>
    /\ patch_pc = "run"
    /\ WrapperIdle

SpecPatch == InitPatch /\ [][NextPatch]_vars

\* ------------------------------------------------------------------------
\* run_compiler_wrapper: transpile every .blcpp file into a temp directory,
\* run the native compiler, remove the temp directory
\* ------------------------------------------------------------------------

\* the name of the generated file of a source (lines 1716-1717):
\* os.path.splitext(os.path.basename(original_path))[0] + '.cpp'
temp_name(original_path) ==
    LET base_name == basename(original_path)
        dot == RFind(base_name, <<".">>)
    IN  (IF dot > 0 THEN Slice(base_name, 0, dot) ELSE base_name) \o <<".","c","p","p">>

\* no .blcpp file: the arguments go to the compiler as they are (lines 1694-1700)
WrapperPassThrough ==
    /\ wrapper_pc = "call"
    /\ blcpp_files = <<>>
    /\ returncode' \in {0, 1}
    /\ wrapper_pc' = "returned"
    /\ UNCHANGED <<keep_temp, blcpp_files, temp_dir, temp_files, cvars, evars, pvars>>

\* tempfile.mkdtemp (line 1702), and the try block is entered
WrapperMkdtemp ==
    /\ wrapper_pc = "call"
    /\ blcpp_files # <<>>
    /\ temp_dir' = "exists"
    /\ wrapper_pc' = "loop"
    /\ UNCHANGED <<keep_temp, blcpp_files, temp_files, returncode, cvars, evars, pvars>>

\* one round of the loop in which transpile_file returns a mapper (lines 1715-1728)
WrapperTranspile ==
    /\ wrapper_pc = "loop"
    /\ blcpp_files # <<>>
    /\ Head(blcpp_files).outcome = "mapper"
    /\ temp_files' = temp_files \cup {temp_name(Head(blcpp_files).path)}
    /\ blcpp_files' = Tail(blcpp_files)
    /\ UNCHANGED <<wrapper_pc, keep_temp, temp_dir, returncode, cvars, evars, pvars>>

\* a round of the loop that returns 1 without going through the finally block
WrapperTranspileFailsLeaving ==
    /\ wrapper_pc = "loop"
    /\ blcpp_files # <<>>
    /\ Head(blcpp_files).outcome \in {"FileNotFoundError", "Exception"}
    /\ returncode' = 1
    /\ wrapper_pc' = "returned"
    /\ UNCHANGED <<keep_temp, blcpp_files, temp_dir, temp_files, cvars, evars, pvars>>

\* one round of the loop in which transpile_file raises: return 1 (lines 1729-1734)
WrapperTranspileFails ==
    /\ wrapper_pc = "loop"
    /\ blcpp_files # <<>>
    /\ Head(blcpp_files).outcome \in {"FileNotFoundError", "Exception"}
    /\ returncode' = 1
    /\ wrapper_pc' = "finally"
    /\ UNCHANGED <<keep_temp, blcpp_files, temp_dir, temp_files, cvars, evars, pvars>>

\* the native compiler runs on the generated files and its return code is
\* returned (lines 1736-1750)
WrapperRunCompiler ==
    /\ wrapper_pc = "loop"
    /\ blcpp_files = <<>>
    /\ returncode' \in {0, 1}
    /\ wrapper_pc' = "finally"
    /\ UNCHANGED <<keep_temp, blcpp_files, temp_dir, temp_files, cvars, evars, pvars>>

\* the finally block (lines 1752-1759): shutil.rmtree unless keep_temp
WrapperFinally ==
    /\ wrapper_pc = "finally"
    /\ temp_dir' = IF keep_temp THEN temp_dir ELSE "removed"
    /\ temp_files' = IF keep_temp THEN temp_files ELSE {}
    /\ wrapper_pc' = "returned"
    /\ UNCHANGED <<keep_temp, blcpp_files, returncode, cvars, evars, pvars>>

NextWrapper ==
    \/ WrapperPassThrough
    \/ WrapperMkdtemp
    \/ WrapperTranspile
    \/ WrapperTranspileFails
    \/ WrapperRunCompiler
    \/ WrapperFinally

\* up to three sources, two of them with the same base name, and what
\* transpile_file does for each
MaxSourceFiles == 3
SourcePaths == {<<"a",".","b","l","c","p","p">>, <<"d","/","a",".","b","l","c","p","p">>, <<"b",".","B","L","C","P","P">>}
SourceFiles == [path : SourcePaths, outcome : {"mapper", "FileNotFoundError", "Exception"}]

InitWrapper ==
    /\ CompilerInit({<<>>}, "idle")
    /\ ExpandIdle
    /\ PatchIdle
    /\ wrapper_pc = "call"
    /\ keep_temp \in BOOLEAN
    /\ blcpp_files \in {s \in SeqsUpTo(SourceFiles, MaxSourceFiles) :
                           \A i \in 1..Len(s) : \A j \in 1..Len(s) :
                               s[i].path = s[j].path => i = j}
    /\ temp_dir = "none"
    /\ temp_files = {}
    /\ returncode = NoCode

SpecWrapper == InitWrapper /\ [][NextWrapper]_vars

\* ------------------------------------------------------------------------
\* Properties
\* ------------------------------------------------------------------------

\* the part of a line before its // comment
CodePart(line) ==
    IF find_line_comment(line) >= 0 THEN Slice(line, 0, find_line_comment(line)) ELSE line

RECURSIVE BraceBalance(_)
\* opening minus closing braces of the code of a list of lines
BraceBalance(ls) ==
    IF ls = <<>> THEN 0
    ELSE Count(CodePart(Head(ls)), "{") - Count(CodePart(Head(ls)), "}")
         + BraceBalance(Tail(ls))

Finished == pc = "done" /\ run = 1

\* C1: when compile returns on an input whose own braces are balanced, the
\* braces of the output are balanced: every { put for a block opener has its }
C1_OutputBracesBalanced ==
    (Finished /\ BraceBalance(lines) = 0) => BraceBalance(output) = 0

\* the bodies of a do block: plain statements, a nested braceless block, a
\* nested block with braces
DoBodies ==
    {<<<<" "," "," "," ","x">>>>, <<<<" "," "," "," ","x">>, <<" "," "," "," ","x">>>>,
     <<<<" "," "," "," ","i","f"," ","y",":">>, <<" "," "," "," "," "," "," "," ","z">>>>,
     <<<<" "," "," "," ","i","f"," ","(","y",")"," ","{">>, <<" "," "," "," ","}">>>>}

\* C2: do: at indent 0, a body, and while c at indent 0 give one line
\* "} while (c);" that ends the output, no bare "}" at the indent of the do, and
\* the while clause in the output exactly once
C2_DoWhileClosesOnOneLine ==
    \A body \in DoBodies :
        (Finished /\ lines = <<<<"d","o",":">>>> \o body \o <<<<"w","h","i","l","e"," ","c">>>>) =>
            /\ output # <<>>
            /\ Top(output) = <<"}"," ","w","h","i","l","e"," ","(","c",")",";">>
            /\ \A k \in 1..Len(output) : output[k] # <<"}">>
            /\ Cardinality({k \in 1..Len(output) : Contains(output[k], <<"w","h","i","l","e">>)}) = 1

\* C3: no closing brace is ever put for a frame of type REGULAR_BRACE
C3_NoClosingBraceForRegularBrace ==
    \A k \in 1..Len(closing_log) : closing_log[k].type # "REGULAR_BRACE"

RECURSIVE WellNested(_, _)
\* every "void f() {" has its "}" and every "}" its "void f() {"
WellNested(ls, open) ==
    IF ls = <<>> THEN open = 0
    ELSE IF Strip(Head(ls)) = <<"v","o","i","d"," ","f","(",")"," ","{">> THEN WellNested(Tail(ls), open + 1)
    ELSE IF Strip(Head(ls)) = <<"}">> THEN open > 0 /\ WellNested(Tail(ls), open - 1)
    ELSE WellNested(Tail(ls), open)

\* C4: braced C++ with no line ending in a colon comes out line by line, each
\* line as it was or with one ";" appended, and no line added
C4_BracedInputUnchanged ==
    (Finished /\ WellNested(lines, 0)) =>
        /\ Len(output) = Len(lines)
        /\ \A k \in 1..Len(output) : output[k] \in {lines[k], lines[k] \o <<";">>}

\* C5: the translator applied to its own output returns that output
C5_Idempotent ==
    (pc = "done" /\ run = 2) => compiled_text(output) = first_text

IsLonePass(line) == Strip(line) \in {<<"p","a","s","s">>, <<"p","a","s","s",";">>}

\* C6: when compile returns, nothing is left in control_condition_lines or
\* pending_blank_lines, and at least as many lines were put out as the input
\* has lines other than a lone pass
C6_NoLineLost ==
    Finished =>
        /\ control_condition_lines = <<>>
        /\ pending_blank_lines = <<>>
        /\ Len(source_lines) >= Cardinality({k \in 1..Len(lines) : ~IsLonePass(lines[k])})

\* the line _process_line is about to take reaches the dedent handling as an
\* access specifier: it is not text of a block comment, not part of a multi-line
\* condition and not a continuation
AccessStep ==
    /\ pc = "run"
    /\ current < Len(lines)
    /\ ~in_block_comment
    /\ control_keyword = NoKeyword
    /\ continuation_indent = NoIndent
    /\ is_access_specifier(get_content(lines[current + 1]))

IsClassOrStruct(t) == t \in {"CLASS", "STRUCT"}
HasClassOrStruct(stack) == \E k \in 1..Len(stack) : IsClassOrStruct(stack[k])
IsSynthetic(t) == t # "REGULAR_BRACE"
IsPrefix(a, b) == Len(a) <= Len(b) /\ a = SubSeq(b, 1, Len(a))
Reversed(s) == [k \in 1..Len(s) |-> s[Len(s) + 1 - k]]
TypesOf(log) == [k \in 1..Len(log) |-> log[k].type]

\* C7: a step that takes an access specifier line pushes no frame, pops no
\* CLASS or STRUCT frame, puts one closing brace for every popped frame that
\* is not REGULAR_BRACE, ends at the nearest class or struct frame when the
\* line dedents below a class or struct, and puts the line with its colon last
C7_AccessSpecifierKeepsClass ==
    [][AccessStep =>
        LET popped == SubSeq(block_type_stack, Len(block_type_stack') + 1,
                             Len(block_type_stack))
            closed == SubSeq(closing_log', Len(closing_log) + 1, Len(closing_log'))
            line == lines[current + 1]
        IN  /\ IsPrefix(block_type_stack', block_type_stack)
            /\ IsPrefix(indent_stack', indent_stack)
            /\ IsPrefix(whitespace_stack', whitespace_stack)
            /\ Len(indent_stack') = Len(block_type_stack')
            /\ \A k \in 1..Len(popped) : ~IsClassOrStruct(popped[k])
            /\ IsPrefix(closing_log, closing_log')
            /\ TypesOf(closed) = SelectSeq(Reversed(popped), IsSynthetic)
            /\ (get_indent(line) < Top(indent_stack) /\ HasClassOrStruct(block_type_stack))
                   => IsClassOrStruct(Top(block_type_stack'))
            /\ output' # <<>>
            /\ Top(output') = line
            /\ EndsWith(Top(output'), <<":">>)]_vars

\* an access specifier line was taken, the brace of a method was put right
\* before it and the class or struct is the innermost frame
C7_Witness ==
    /\ pc = "run"
    /\ current >= 1
    /\ is_access_specifier(get_content(lines[current]))
    /\ output # <<>>
    /\ Top(output) = lines[current]
    /\ closing_log # <<>>
    /\ Top(closing_log).at = Len(output) - 1
    /\ IsClassOrStruct(Top(block_type_stack))

Expanded == exp_pc = "done"

\* C8: when the outermost expand_blh_includes returns, no line of a file is in
\* the expansion twice: no two output lines have the same source location
C8_EveryFileSplicedAtMostOnce ==
    Expanded =>
        \A i, j \in DOMAIN exp_result.line_map :
            i # j => exp_result.line_map[i] # exp_result.line_map[j]

\* the header files an include can resolve to: in a directory that is searched,
\* not hidden by a file of the same name earlier in the search order
ResolvableHeaders ==
    {p \in DOMAIN fs :
        /\ EndsWith(LowerAll(p[2]), <<".","b","l","h">>)
        /\ \E q \in DOMAIN fs : resolve_include(fs, p[2], <<q[1]>> \o include_dirs) = p}

\* C9: the depth of the recursion of expand_blh_includes is at most the number
\* of resolvable header paths plus one, the included-set holds only such
\* paths, and the outermost call returns or raises
C9_ExpansionTerminates ==
    /\ [](/\ Len(exp_stack) <= Cardinality(ResolvableHeaders) + 1
          /\ included_files \subseteq ResolvableHeaders)
    /\ <>(exp_pc \in {"done", "raised"})

\* an include cycle took the recursion to the bound: the root file is expanded
\* again, below every header
C9_Witness ==
    /\ exp_pc = "run"
    /\ Len(exp_stack) = Cardinality(ResolvableHeaders) + 1
    /\ Len(exp_stack) > 2
    /\ Active.source_path = root
    /\ included_files = ResolvableHeaders

\* the activation is at an include of a header that no search directory has
UnresolvedStep ==
    /\ InLoop
    /\ ActiveMatch.matched
    /\ ActivePath = NoPath

\* C10: a step at an unresolved include appends the line as it is to the lines
\* of the activation, maps the new output line to the file of the activation
\* and the number of the line in it, leaves the included-set alone and goes on
\* without an error; and every line of the final expansion is the line of the
\* file at the location its map entry names
C10_UnresolvedIncludeKept ==
    /\ [][UnresolvedStep =>
            LET before == Active
                after == exp_stack'[Len(exp_stack')]
                output_line == Len(before.lines) + 1
            IN  /\ Len(exp_stack') = Len(exp_stack)
                /\ after.lines = Append(before.lines, ActiveLine)
                /\ DOMAIN after.line_map = (DOMAIN before.line_map) \cup {output_line}
                /\ after.line_map[output_line] = <<before.source_path, before.src_line_num>>
                /\ \A k \in DOMAIN before.line_map : after.line_map[k] = before.line_map[k]
                /\ after.src_line_num = before.src_line_num + 1
                /\ included_files' = included_files
                /\ exp_pc' = "run"]_vars
    /\ [](Expanded =>
            /\ DOMAIN exp_result.line_map = 1..Len(exp_result.lines)
            /\ \A k \in 1..Len(exp_result.lines) :
                   LET origin == exp_result.line_map[k]
                   IN  /\ origin[1] \in DOMAIN fs
                       /\ origin[2] \in 1..Len(fs[origin[1]])
                       /\ exp_result.lines[k] = fs[origin[1]][origin[2]])

\* the expansion returned with an unresolved include of a header in it, after
\* other lines
C10_Witness ==
    /\ Expanded
    /\ \E k \in 2..Len(exp_result.lines) :
           /\ match_line(exp_result.lines[k]).matched
           /\ exp_result.line_map[k][1] # root
           /\ resolve_include(fs, match_line(exp_result.lines[k]).blh_name,
                              <<exp_result.line_map[k][1][1]>> \o include_dirs) = NoPath

\* the activation is at a line that is a .blh include
IncludeStep == InLoop /\ ActiveMatch.matched

\* C11: at an include line the directories are tried in the order: directory
\* of the file that has the line, then include_dirs as given; the header
\* expanded is the one in the first directory that has the name, the include
\* is skipped when that one is in the included-set, and the line is kept when
\* no directory has the name
C11_FirstDirectoryWins ==
    [][IncludeStep =>
        LET order == <<Active.source_path[1]>> \o include_dirs
            name == ActiveMatch.blh_name
            hits == {i \in 1..Len(order) : <<order[i], name>> \in DOMAIN fs}
            first == <<order[SetMin(hits)], name>>
            after == exp_stack'[Len(exp_stack')]
        IN  IF hits = {}
            THEN /\ Len(exp_stack') = Len(exp_stack)
                 /\ after.lines = Append(Active.lines, ActiveLine)
                 /\ included_files' = included_files
            ELSE IF first \in included_files
            THEN /\ Len(exp_stack') = Len(exp_stack)
                 /\ after.lines = Active.lines
                 /\ included_files' = included_files
            ELSE /\ Len(exp_stack') = Len(exp_stack) + 1
                 /\ after.source_path = first
                 /\ after.source_lines = fs[first]
                 /\ included_files' = included_files \cup {first}]_vars

\* a header in /q included a name that /p has too, /p being listed before /q:
\* the header of its own directory is the one expanded
C11_Witness ==
    /\ exp_pc = "run"
    /\ Len(exp_stack) >= 3
    /\ include_dirs = <<"/p", "/q">>
    /\ exp_stack[Len(exp_stack) - 1].source_path[1] = "/q"
    /\ Active.source_path[1] = "/q"
    /\ <<"/p", Active.source_path[2]>> \in DOMAIN fs
    /\ <<"/p", Active.source_path[2]>> \notin included_files

\* the keys of the map are 1..len(lines) and every entry names a line of a
\* file that was opened, which holds the text of the expanded line
MapsToOrigins(ls, line_map, path) ==
    /\ DOMAIN line_map = 1..Len(ls)
    /\ \A k \in 1..Len(ls) :
           LET origin == line_map[k]
           IN  /\ origin[1] \in DOMAIN fs
               /\ origin[2] \in 1..Len(fs[origin[1]])
               /\ ls[k] = fs[origin[1]][origin[2]]
               /\ origin[1] # path => origin[1] \in included_files

\* C12: the line map of every running expansion, and the one returned, has
\* exactly the keys 1..len(lines); a line read from the file of the expansion
\* gets the path of that file and its 1-based number in it, and a line spliced
\* from a header keeps the entry it had in the expansion of the header, at
\* every depth of nesting
C12_LineMapNamesOrigin ==
    /\ [][(InLoop /\ Len(exp_stack') = Len(exp_stack)
                  /\ exp_stack'[Len(exp_stack')].lines # Active.lines) =>
            LET after == exp_stack'[Len(exp_stack')]
                k == Len(Active.lines) + 1
            IN  /\ after.lines = Append(Active.lines, Active.source_lines[Active.src_line_num])
                /\ after.line_map[k] = <<Active.source_path, Active.src_line_num>>
                /\ Active.source_lines = fs[Active.source_path]]_vars
    /\ [][(exp_pc = "run" /\ exp_pc' = "run" /\ Len(exp_stack') < Len(exp_stack)) =>
            LET caller == exp_stack[Len(exp_stack) - 1]
                after == exp_stack'[Len(exp_stack')]
                base == Len(caller.lines)
            IN  /\ after.lines = caller.lines \o Active.lines
                /\ \A i \in 1..Len(Active.lines) :
                       after.line_map[base + i] = Active.line_map[i]
                /\ \A i \in 1..base : after.line_map[i] = caller.line_map[i]]_vars
    /\ [](exp_pc = "run" =>
            \A d \in 1..Len(exp_stack) :
                MapsToOrigins(exp_stack[d].lines, exp_stack[d].line_map,
                              exp_stack[d].source_path))
    /\ [](exp_pc = "done" =>
            MapsToOrigins(exp_result.lines, exp_result.line_map, root))

\* the expansion returned a line of a header that only another header includes,
\* after a line of the root
C12_Witness ==
    /\ exp_pc = "done"
    /\ \E k \in 2..Len(exp_result.lines) :
           LET origin == exp_result.line_map[k]
           IN  /\ origin[1] \in HeaderPaths
               /\ exp_result.line_map[1][1] = root
               /\ \A i \in 1..Len(fs[root]) :
                      match_line(fs[root][i]).blh_name # origin[1][2]

\* C13: the list of source-line tags is as long as the output list, tag k
\* being the one of output line k, so that the tag looked up for the last
\* generated line is the one recorded when it was emitted; this also after a
\* merge that took a "}" line off the output
C13_TagsAlignedWithOutput ==
    /\ Len(source_lines) = Len(output)
    /\ output # <<>> =>
           get_source_line(source_lines, Len(output)) = source_lines[Len(source_lines)]

\* the file was expanded and the expanded lines were translated
Transpiled == exp_pc = "done" /\ pc = "done"

\* C14: of two generated lines that map to the same origin file, the later one
\* does not map to an earlier line of that file
C14_OriginLinesInOrder ==
    Transpiled =>
        \A j, k \in 1..Len(output) :
            (j < k /\ source_location(j)[1] = source_location(k)[1])
                => source_location(j)[2] <= source_location(k)[2]

\* the calls of _output_closing_brace made by the step
NewClosings == SubSeq(closing_log', Len(closing_log) + 1, Len(closing_log'))

\* C15: a synthetic closing brace is mapped to the last content line of the
\* block it closes: one put while a dedenting line is processed is mapped to
\* a line before that line, and one put by the drain at the end of the input
\* is mapped to a line that is not blank
C15_ClosingBraceMapsIntoBlock ==
    [][(pc = "run" /\ output' # output) =>
        \A n \in 1..Len(NewClosings) :
            LET at == NewClosings[n].at
                tag == get_source_line(source_lines', at)
            IN  /\ tag \in 1..Len(lines)
                /\ current < Len(lines) => tag <= current
                /\ current >= Len(lines) => Strip(lines[tag]) # <<>>]_vars

\* the count of ( and [ still open after line i of the input, a count that
\* is not positive starting afresh on the next line
RECURSIVE OpenAfter(_)
OpenAfter(i) ==
    IF i = 0 THEN 0
    ELSE IF OpenAfter(i - 1) > 0 THEN OpenAfter(i - 1) + paren_change(lines[i])
    ELSE paren_change(lines[i])

\* the first physical line of the statement that line c belongs to
StatementStart(c) == SetMax({i \in 1..c : OpenAfter(i - 1) <= 0})

\* the step takes the last line of a statement that spans several physical
\* lines because ( or [ was open, and puts it out with its ";"
TerminatorStep ==
    /\ pc = "run"
    /\ current < Len(lines)
    /\ continuation_indent # NoIndent
    /\ paren_depth > 0
    /\ OpenAfter(current) > 0
    /\ continuation_indent' = NoIndent
    /\ Len(output') = Len(output) + 1
    /\ EndsWith(Top(output'), <<";">>)

\* C16: the output line that gets the terminating ";" of a statement spanning
\* several physical lines is mapped to the first physical line of the statement
C16_TerminatorMapsToFirstLine ==
    [][TerminatorStep =>
        get_source_line(source_lines', Len(output')) = StatementStart(current + 1)]_vars

\* the numbers a caller may ask the mapper for: some below 1, the generated
\* lines, and some beyond them
QueriedLines == (0 - 1)..(Len(exp_result.lines) + Len(output) + 1)

\* C17: get_source_location(k) names a real origin file only when generated
\* line k was emitted by the translator and its tag is a key of the expansion
\* line map; for k < 1 and for k beyond the last generated line the file is
\* <unknown>
C17_UnknownOutsideGeneratedLines ==
    Transpiled =>
        \A k \in QueriedLines :
            IF k \in 1..Len(output) /\ source_lines[k] \in DOMAIN exp_result.line_map
            THEN source_location(k) = exp_result.line_map[source_lines[k]]
            ELSE source_location(k)[1] = UnknownFile

\* the block types whose closing brace always carries a semicolon
DeclarationBlocks == {"CLASS", "STRUCT", "ENUM", "UNION"}

\* the line that is being processed starts with ")", or the next line of code
\* after it starts with ")", "," or ";"
InExpression ==
    LET trigger == IF current < Len(lines) THEN LStrip(lines[current + 1]) ELSE <<>>
        next == peek_next_line(State)
    IN  \/ StartsWith(trigger, <<")">>)
        \/ /\ next # 0
           /\ LStrip(lines[next]) # <<>>
           /\ LStrip(lines[next])[1] \in {")", ",", ";"}

\* the closing brace n of the step is "}" with a semicolon
BraceHasSemicolon(n) == EndsWith(output'[NewClosings[n].at], <<"}", ";">>)

\* C18 as stated: a synthetic closing brace carries ";" exactly for CLASS,
\* STRUCT, ENUM, UNION and LAMBDA blocks, for LAMBDA whatever line triggers
\* the dedent and whatever line follows
C18_SemicolonByBlockType ==
    [][pc = "run" =>
        \A n \in 1..Len(NewClosings) :
            BraceHasSemicolon(n) <=> NewClosings[n].type \in SemicolonBlocks]_vars

\* C18 amended: the closing brace carries ";" exactly for CLASS, STRUCT, ENUM
\* and UNION blocks, and for a LAMBDA block unless the dedenting line starts
\* with ")" or the next line of code starts with ")", "," or ";"; NORMAL and
\* SWITCH blocks never get one
C18_SemicolonUnlessLambdaInExpression ==
    [][pc = "run" =>
        \A n \in 1..Len(NewClosings) :
            /\ EndsWith(output'[NewClosings[n].at], <<"}">>) \/ BraceHasSemicolon(n)
            /\ BraceHasSemicolon(n) <=>
                   \/ NewClosings[n].type \in DeclarationBlocks
                   \/ NewClosings[n].type = "LAMBDA" /\ ~InExpression]_vars

\* a lambda was closed by a line that starts with ")", without a semicolon
C18_Witness ==
    /\ pc = "run"
    /\ current > 0
    /\ StartsWith(LStrip(lines[current]), <<")">>)
    /\ \E k \in 1..Len(closing_log) :
           /\ closing_log[k].type = "LAMBDA"
           /\ closing_log[k].at = Len(output) - 1
           /\ output[closing_log[k].at] = <<"}">>

\* the opener that ends on the line being processed is a condition being
\* collected, or what the translator holds open is what the text holds open
OpenerIsPlain ==
    \/ control_keyword # NoKeyword
    \/ /\ continuation_indent # NoIndent
       /\ paren_depth > 0
       /\ paren_depth = OpenAfter(current)
    \/ /\ continuation_indent = NoIndent
       /\ OpenAfter(current) <= 0

\* the first physical line of the opener that ends on the line being processed
OpenerLine ==
    IF control_keyword # NoKeyword THEN current + 1 - Len(control_condition_lines)
    ELSE StatementStart(current + 1)

\* C19: a synthetic closing brace starts with exactly the leading whitespace of
\* the opener of its block, the first physical line of the opener when it spans
\* several lines: the whitespace recorded at the push of a block is that of the
\* opener, and a closing brace is the recorded whitespace and "}" or "};"
C19_BraceTakesOpenerWhitespace ==
    [][(pc = "run" /\ current < Len(lines)) =>
        /\ (OpenerIsPlain /\ Len(whitespace_stack') > Len(whitespace_stack))
               => Top(whitespace_stack') = get_leading_ws(lines[OpenerLine])
        /\ \A n \in 1..Len(NewClosings) :
               /\ n <= Len(whitespace_stack) - 1
               /\ output'[NewClosings[n].at] \in
                      {whitespace_stack[Len(whitespace_stack) + 1 - n] \o <<"}">>,
                       whitespace_stack[Len(whitespace_stack) + 1 - n] \o <<"}", ";">>}]_vars

\* the line being processed is a statement of the block on top of the stack:
\* it has text, does not end in a colon, is not pass and does not dedent
StatementInBlock ==
    /\ pc = "run"
    /\ current < Len(lines)
    /\ Strip(lines[current + 1]) # <<>>
    /\ Strip(lines[current + 1]) # <<"p","a","s","s">>
    /\ ~find_trailing_colon(get_content(lines[current + 1])).found
    /\ get_indent(lines[current + 1]) >= Top(indent_stack)

\* C20: while the top of block_type_stack is ENUM a statement line is put out
\* as it is, without a semicolon; an opener that starts with "enum ", "enum
\* class" too, pushes an ENUM block; and an ENUM block is closed with "};"
C20_EnumItemsUnchanged ==
    [][pc = "run" =>
        /\ (StatementInBlock /\ Top(block_type_stack) = "ENUM")
               => /\ output' = Append(output, lines[current + 1])
                  /\ block_type_stack' = block_type_stack
        /\ (/\ current < Len(lines)
            /\ StartsWith(lines[current + 1], <<"e","n","u","m"," ">>)
            /\ Len(indent_stack') > Len(indent_stack))
               => Top(block_type_stack') = "ENUM"
        /\ \A n \in 1..Len(NewClosings) :
               NewClosings[n].type = "ENUM"
                   => EndsWith(output'[NewClosings[n].at], <<"}", ";">>)]_vars

\* an item that would get a semicolon elsewhere was put out inside an enum
\* class, and the enum was closed
C20_Witness ==
    /\ lines # <<>>
    /\ lines[1] = <<"e","n","u","m"," ","c","l","a","s","s"," ","F",":">>
    /\ \E k \in 2..Len(output) :
           /\ output[k] = <<" "," "," "," ","B"," ","="," ","1">>
           /\ k < Len(output)
           /\ output[Len(output)] = <<"}", ";">>
    /\ closing_log # <<>>
    /\ Top(closing_log).type = "ENUM"

\* the line is a case or default label
IsCaseLine(line) ==
    \/ StartsWith(Strip(line), <<"c","a","s","e"," ">>) /\ EndsWith(Strip(line), <<":">>)
    \/ Strip(line) = <<"d","e","f","a","u","l","t",":">>

\* the step takes a case or default label outside of a block comment and of
\* a condition that is being collected
CaseStep ==
    /\ pc = "run"
    /\ current < Len(lines)
    /\ ~in_block_comment
    /\ control_keyword = NoKeyword
    /\ IsCaseLine(lines[current + 1])

\* what is left of a stack of frames after the dedent to indent: the frames
\* above the bottom one whose content indent is deeper are gone
KeptFrames(indent) ==
    SetMax({j \in 1..Len(indent_stack) : j = 1 \/ indent_stack[j] <= indent})

\* C21: a case or default label pushes no frame on any of the three stacks and
\* puts out no "{": the label is put out with its colon, after the closing
\* braces of the dedent, and the stacks are the ones the dedent left
C21_CaseLabelOpensNoBlock ==
    [][CaseStep =>
        LET line == lines[current + 1]
            kept == KeptFrames(get_indent(line))
            popped == Len(indent_stack) - kept
        IN  /\ indent_stack' = SubSeq(indent_stack, 1, kept)
            /\ block_type_stack' = SubSeq(block_type_stack, 1,
                                          SetMax({1, Len(block_type_stack) - popped}))
            /\ whitespace_stack' = SubSeq(whitespace_stack, 1,
                                          SetMax({1, Len(whitespace_stack) - popped}))
            /\ Top(output') = line
            /\ ~Contains(Top(output'), <<"{">>)
            /\ \A k \in (Len(output) + 1)..(Len(output') - 1) :
                   Strip(output'[k]) \in {<<>>, <<"}">>, <<"}", ";">>}]_vars

\* a default label closed the block nested under the label before it and
\* left the switch open
C21_Witness ==
    /\ pc = "run"
    /\ current >= 5
    /\ lines[current] = <<" "," "," "," ","d","e","f","a","u","l","t",":">>
    /\ Len(output) >= 2
    /\ Top(output) = <<" "," "," "," ","d","e","f","a","u","l","t",":">>
    /\ output[Len(output) - 1] = <<" "," "," "," "," "," "," "," ","}">>
    /\ block_type_stack = <<"NORMAL", "SWITCH">>
    /\ indent_stack = <<0, 4>>

\* the parenthesis that opens c is closed by its last character
Enclosed(c) ==
    /\ Len(c) >= 2
    /\ c[1] = "("
    /\ c[Len(c)] = ")"
    /\ \A i \in 1..(Len(c) - 1) : Depth(c, i) > 0

ElseStep ==
    /\ pc = "run"
    /\ current < Len(lines)
    /\ ~in_block_comment
    /\ control_keyword = NoKeyword
    /\ lines[current + 1] \in {<<"e","l","s","e",":">>, <<"c","a","t","c","h"," ","(","E"," ","e",")",":">>}

\* the last line of out that is not blank, without the whitespace around it
LastNonBlank(out) ==
    LET filled == {i \in 1..Len(out) : Strip(out[i]) # <<>>}
    IN  IF filled = {} THEN <<>> ELSE Strip(out[SetMax(filled)])

\* C23: an else or catch clause whose most recent non-blank output line is
\* "}", blank lines lying between them or not, takes that "}" off the output
\* and is put out as "} <clause> {"; the buffered blank and comment lines
\* follow the line of the clause
C23_ElseMergesWithClosingBrace ==
    [][ElseStep =>
        LET clause == Slice(lines[current + 1], 0, Len(lines[current + 1]) - 1)
            n == Len(output') - Len(pending_blank_lines)
            before == SubSeq(output', 1, n - 1)
        IN  /\ n >= 1
            /\ SubSeq(output', n + 1, Len(output')) = pending_blank_lines
            /\ pending_blank_lines' = <<>>
            /\ output'[n] \in {clause \o <<" ","{">>, <<"}"," ">> \o clause \o <<" ","{">>}
            /\ output'[n] = clause \o <<" ","{">> => LastNonBlank(before) # <<"}">>]_vars

\* the step takes a line that is the single identifier pass, as a statement
PassStep ==
    /\ pc = "run"
    /\ current < Len(lines)
    /\ ~in_block_comment
    /\ control_keyword = NoKeyword
    /\ Strip(lines[current + 1]) = <<"p","a","s","s">>

\* line i starts a block whose only body line is pass, indented deeper than
\* the opener or as the opener
IsPassBlock(i) ==
    /\ i + 1 <= Len(lines)
    /\ find_trailing_colon(get_content(lines[i])).found
    /\ Strip(lines[i + 1]) = <<"p","a","s","s">>
    /\ get_indent(lines[i + 1]) >= get_indent(lines[i])
    /\ i + 2 <= Len(lines) => get_indent(lines[i + 2]) <= get_indent(lines[i])

CommentStep ==
    /\ pc = "run"
    /\ current < Len(lines)
    /\ in_block_comment \/ in_block_comment'

\* the step takes a line that begins inside an open block comment, or whose
\* text begins with the opening of a block comment
CommentLineStep ==
    /\ pc = "run"
    /\ current < Len(lines)
    /\ in_block_comment \/ StartsWith(LStrip(lines[current + 1]), <<"/","*">>)

\* the line of the step is appended to the output as it is, and the stacks,
\* the buffered lines, the continuation state and the condition being
\* collected are left alone
LineCopiedStateKept ==
    /\ output' = Append(output, lines[current + 1])
    /\ UNCHANGED <<indent_stack, block_type_stack, whitespace_stack,
                   pending_blank_lines, continuation_indent, paren_depth,
                   control_keyword, control_condition_lines, control_start_indent>>

\* a line that begins inside an open block comment, or that leaves a block
\* comment open at its end, is copied and leaves that state alone
OpenCommentLineLeavesState == [][CommentStep => LineCopiedStateKept]_vars

\* C25: a line that starts a block comment or lies inside one is appended to
\* the output unchanged, and its step leaves indent_stack, block_type_stack,
\* whitespace_stack, pending_blank_lines, the continuation state and the
\* condition collection state unchanged
C25_CommentLineLeavesState == [][CommentLineStep => LineCopiedStateKept]_vars

\* the characters of a line that are outside of string and character
\* literals and in front of a "//" comment; quote is the open quote, or ""
RECURSIVE OutsideText(_, _, _)
OutsideText(line, i, quote) ==
    IF i > Len(line) THEN <<>>
    ELSE IF quote # ""
         THEN IF line[i] = "\\" THEN OutsideText(line, i + 2, quote)
              ELSE OutsideText(line, i + 1, IF line[i] = quote THEN "" ELSE quote)
    ELSE IF line[i] \in {"\"", "'"} THEN OutsideText(line, i + 1, line[i])
    ELSE IF i < Len(line) /\ line[i] = "/" /\ line[i + 1] = "/" THEN <<>>
    ELSE <<line[i]>> \o OutsideText(line, i + 1, "")

\* the brackets a text opens minus the brackets it closes
NetOpen(text) == Count(text, "(") + Count(text, "[") - Count(text, ")") - Count(text, "]")

\* the step takes a line outside of a block comment
CodeStep ==
    /\ pc = "run"
    /\ current < Len(lines)
    /\ ~in_block_comment

\* C26: characters inside a string or character literal or behind "//" do
\* not change the translator state: a line whose text outside of them has no
\* "/*" does not set in_block_comment, and the paren depth of a continuation
\* counts the brackets outside of them only
C26_LiteralsChangeNoState ==
    [][CodeStep =>
          LET text == OutsideText(lines[current + 1], 1, "")
          IN  /\ ~Contains(text, <<"/","*">>) => ~in_block_comment'
              /\ (~in_block_comment' /\ continuation_indent' # NoIndent) =>
                     paren_depth' = (IF continuation_indent = NoIndent THEN 0 ELSE paren_depth)
                                    + NetOpen(text)]_vars

\* the first non-blank character of the line is "#"
IsPreprocessorLine(line) == StartsWith(LStrip(line), <<"#">>)

\* the step takes a preprocessor line at the start of a statement
PreprocessorStep ==
    /\ CodeStep
    /\ control_keyword = NoKeyword
    /\ continuation_indent = NoIndent
    /\ IsPreprocessorLine(lines[current + 1])

\* C27: a preprocessor line, whatever its last character, is put out
\* unchanged and leaves the translator outside of continuation state, so a
\* "}" line that follows the preprocessor line at the head of the file is
\* put out without an added ";"
C27_PreprocessorNeverContinues ==
    /\ [][PreprocessorStep =>
              /\ output' # <<>>
              /\ output'[Len(output')] = lines[current + 1]
              /\ continuation_indent' = NoIndent]_vars
    /\ [](pc = "done" /\ Len(lines) >= 2 /\ IsPreprocessorLine(lines[1])
              /\ Strip(lines[2]) = <<"}">>
           => Len(output) >= 2 /\ output[2] = lines[2])

\* lines i..j are a lambda assignment with the author's braces: the opener
\* "auto f = [](){", several deeper body lines, and a "}" line at the
\* opener's indent
IsBracedLambda(i, j) ==
    /\ j >= i + 3
    /\ j <= Len(lines)
    /\ EndsWith(lines[i], <<"a","u","t","o"," ","f"," ","="," ","[","]","(",")","{">>)
    /\ \A k \in (i + 1)..(j - 1) : get_indent(lines[k]) > get_indent(lines[i])
    /\ lines[j] = get_leading_ws(lines[i]) \o <<"}">>

\* C28: a lambda assignment with the author's braces whose body spans
\* several indented lines and ends with a "}" line is put out with the
\* closing "};"
C28_BracedLambdaGetsSemicolon ==
    pc = "done" =>
        \A i \in 1..Len(lines) : \A j \in 1..Len(lines) :
            IsBracedLambda(i, j) =>
                \E p \in 1..Len(output) :
                    /\ source_lines[p] = j
                    /\ output[p] = lines[j] \o <<";">>

\* C29: when the root source path cannot be opened, expand_blh_includes
\* raises an error that carries the path, and transpile_file writes no
\* output file and returns no mapper
C29_MissingRootRaises ==
    /\ [](root \notin DOMAIN fs /\ exp_pc # "call" =>
              /\ exp_pc = "raised"
              /\ exp_error = root)
    /\ [](exp_pc = "raised" =>
              /\ root \notin DOMAIN fs
              /\ OutputPath \notin DOMAIN fs
              /\ pc = "idle"
              /\ output = <<>>)
    /\ [][exp_pc = "raised" => UNCHANGED vars]_vars

\* the call raised for a root that is missing while a header exists
C29_Witness ==
    /\ exp_pc = "raised"
    /\ exp_error = RootPath
    /\ DOMAIN fs = {<<"/p", <<"a",".","b","l","h">>>>}
    /\ pc = "idle"

\* the line the round of the loop takes
PatchedInput == compiler_output[Len(patched_lines) + 1]

\* the file the diagnostic names is one of the generated files
NamesGeneratedFile(filepath) ==
    \E k \in 1..Len(file_mappings) :
        normalize_path(filepath) = normalize_path(file_mappings[k].temp_path)

\* C30: patch_compiler_output leaves a diagnostic line unchanged whenever
\* the file it names is not one of the generated files, a file in another
\* directory with the base name of a generated file included
C30_OtherFileUnchanged ==
    [][PatchLine =>
          LET match == IF error_format = "MSVC" THEN msvc_match(PatchedInput)
                       ELSE gnu_match(PatchedInput)
          IN  (match.matched /\ ~NamesGeneratedFile(match.filepath)) =>
                  patched_lines'[Len(patched_lines')] = PatchedInput]_vars

\* the diagnostic of the round names a generated file, and the mapper of
\* that file has no original location for its line number
UnknownLineStep ==
    LET match == IF error_format = "MSVC" THEN msvc_match(PatchedInput)
                 ELSE gnu_match(PatchedInput)
        k == matched_temp_path(file_mappings, match.filepath)
        mapper == file_mappings[k].mapper
    IN  /\ PatchLine
        /\ match.matched
        /\ NamesGeneratedFile(match.filepath)
        /\ k # 0
        /\ get_source_location(mapper.blh_map, mapper.tags, to_int(match.line_num))[1]
               = UnknownFile

\* C31: a diagnostic that names the generated file but a line number for
\* which no mapping is recorded is left unchanged by the patching
C31_UnknownLineUnchanged ==
    [][UnknownLineStep => patched_lines'[Len(patched_lines')] = PatchedInput]_vars

C33_StacksInStep ==
    /\ Len(indent_stack) = Len(block_type_stack)
    /\ Len(indent_stack) = Len(whitespace_stack)
    /\ Len(indent_stack) >= 1
    /\ indent_stack[1] = 0
    /\ block_type_stack[1] = "NORMAL"
    /\ whitespace_stack[1] = <<>>

\* a block was closed by a line between the indents of the opener and of the
\* body, and the base elements are still there
C33_Witness ==
    /\ pc = "run"
    /\ lines = <<<<"i","f"," ","a",":">>, <<" "," "," "," ","x">>, <<" "," ","y">>>>
    /\ current = 3
    /\ output = <<<<"i","f"," ","(","a",")"," ","{">>, <<" "," "," "," ","x",";">>, <<"}">>, <<" "," ","y",";">>>>
    /\ indent_stack = <<0>>
    /\ block_type_stack = <<"NORMAL">>
    /\ whitespace_stack = <<<<>>>>

\* the step is the end of compile: the drain of the stacks
DrainStep == pc = "run" /\ pc' = "done"

\* the frames above the base that are open, innermost first, those of the
\* author's braces left out
OpenBraceless ==
    LET n == Len(indent_stack)
        frames == [k \in 1..(n - 1) |->
                      [type |-> block_type_stack[n + 1 - k], ws |-> whitespace_stack[n + 1 - k]]]
        IsBraceless(f) == f.type # "REGULAR_BRACE"
    IN  SelectSeq(frames, IsBraceless)

\* C34: when compile returns the three stacks have depth 1, and for every
\* braceless frame that was open at the end of the input (one opened by do:
\* included) exactly one closing-brace line was put out, innermost first
C34_DrainClosesEveryFrame ==
    [][DrainStep =>
          LET IsBraceless(c) == c.type # "REGULAR_BRACE"
              closings == SelectSeq(NewClosings, IsBraceless)
          IN  /\ Len(indent_stack') = 1
              /\ Len(block_type_stack') = 1
              /\ Len(whitespace_stack') = 1
              /\ Len(closings) = Len(OpenBraceless)
              /\ \A k \in 1..Len(closings) :
                     /\ closings[k].type = OpenBraceless[k].type
                     /\ closings[k].at > Len(output)
                     /\ k > 1 => closings[k].at > closings[k - 1].at
                     /\ output'[closings[k].at] \in
                            {OpenBraceless[k].ws \o <<"}">>, OpenBraceless[k].ws \o <<"}",";">>}]_vars

\* a do block without while inside an if block was still open at the end of
\* the input, and both were closed by the drain, the do block first
C34_Witness ==
    /\ pc = "done"
    /\ lines = <<<<"i","f"," ","a",":">>, <<" "," "," "," ","d","o",":">>, <<" "," "," "," "," "," "," "," ","x">>>>
    /\ output = <<<<"i","f"," ","(","a",")"," ","{">>, <<" "," "," "," ","d","o"," ","{">>, <<" "," "," "," "," "," "," "," ","x",";">>, <<" "," "," "," ","}">>, <<"}">>>>
    /\ indent_stack = <<0>>

\* the step takes an if line that ends in a colon, outside of a comment, a
\* continuation and a condition of several lines
StarterStep ==
    /\ CodeStep
    /\ control_keyword = NoKeyword
    /\ continuation_indent = NoIndent
    /\ StartsWith(get_content(lines[current + 1]), <<"i","f"," ">>)
    /\ EndsWith(lines[current + 1], <<":">>)

\* C35: a block-starter line pushes exactly one frame on each of the three
\* stacks: the content indent is the indent of the next code line when that
\* line is deeper and the opener's indent plus 4 when the block is empty, the
\* type is the detected block type, the whitespace is the opener's
C35_StarterPushesOneFrame ==
    [][StarterStep =>
        LET line == lines[current + 1]
            indent == get_indent(line)
            next == peek_next_line(State)
            content_indent == IF next # 0 /\ get_indent(lines[next]) > indent
                              THEN get_indent(lines[next])
                              ELSE indent + EmptyBlockIndent
        IN  /\ indent_stack' = Append(SubSeq(indent_stack, 1, KeptFrames(indent)), content_indent)
            /\ block_type_stack' = Append(SubSeq(block_type_stack, 1, KeptFrames(indent)), "NORMAL")
            /\ whitespace_stack' = Append(SubSeq(whitespace_stack, 1, KeptFrames(indent)),
                                          get_leading_ws(line))]_vars

\* the step takes a code line with an indent below the top of indent_stack:
\* not blank, not a comment, not an access specifier, not text of a block
\* comment, of a collected condition or of a continuation
DedentStep ==
    /\ CodeStep
    /\ control_keyword = NoKeyword
    /\ continuation_indent = NoIndent
    /\ is_code_line(lines[current + 1])
    /\ ~StartsWith(get_content(lines[current + 1]), <<"/","*">>)
    /\ ~is_access_specifier(get_content(lines[current + 1]))
    /\ get_indent(lines[current + 1]) < Top(indent_stack)

\* C36: a code line with an indent below the top of indent_stack pops every
\* frame whose content indent is greater than the indent of the line, and the
\* closing braces of the popped braceless frames are put out before the
\* output of the line
C36_DedentBeforeLine ==
    [][DedentStep =>
        LET indent == get_indent(lines[current + 1])
            kept == KeptFrames(indent)
            popped == {k \in (kept + 1)..Len(indent_stack) :
                          block_type_stack[k] # "REGULAR_BRACE"}
        IN  /\ SubSeq(indent_stack', 1, kept) = SubSeq(indent_stack, 1, kept)
            /\ Len(indent_stack') <= kept + 1
            /\ Len(NewClosings) = Cardinality(popped)
            /\ \A n \in 1..Len(NewClosings) :
                   /\ NewClosings[n].at > Len(output)
                   /\ NewClosings[n].at < Len(output')]_vars

\* the step takes the line "while c", without a colon, outside of a comment,
\* a continuation and a collected condition
WhileStep ==
    /\ CodeStep
    /\ control_keyword = NoKeyword
    /\ continuation_indent = NoIndent
    /\ get_content(lines[current + 1]) = <<"w","h","i","l","e"," ","c">>

\* the output lines that open a do block, and the ones that terminate one
DoOpeners(out) == {k \in 1..Len(out) : Strip(out[k]) = <<"d","o"," ","{">>}
DoTerminators(out) == {k \in 1..Len(out) : EndsWith(out[k], <<"w","h","i","l","e"," ","(","c",")",";">>)}

\* C37: a line "while c" without a colon becomes a do-while terminator only
\* when the block closed for that line was opened by do: -- a do block that
\* has no terminator yet was put out before the line
C37_TerminatorOnlyAfterDo ==
    [][(WhileStep /\ output' # <<>> /\ EndsWith(Top(output'), <<"w","h","i","l","e"," ","(","c",")",";">>)) =>
        Cardinality(DoTerminators(output)) < Cardinality(DoOpeners(output))]_vars

\* C38: when a dedent closes a block, a buffered blank or comment line whose
\* indent is at or above the content indent of the block is put out before the
\* closing brace of the block, and a buffered line whose indent is the indent
\* of the line that triggers the dedent is put out after the closing brace
C38_BufferedLinesAroundBrace ==
    [][(DedentStep /\ NewClosings # <<>> /\ pending_blank_lines # <<>>) =>
        LET indent == get_indent(lines[current + 1])
            put == (Len(output) + 1)..Len(output')
        IN  \A j \in 1..Len(pending_blank_lines) :
                LET buffered == pending_blank_lines[j] IN
                /\ get_indent(buffered) >= Top(indent_stack) =>
                       \E p \in put : /\ output'[p] = buffered
                                      /\ p < NewClosings[1].at
                /\ get_indent(buffered) = indent =>
                       \E p \in put : /\ output'[p] = buffered
                                      /\ p > Top(NewClosings).at]_vars

\* the characters that make a following "[" a subscript: the end of an
\* identifier or of a literal, "]" and ")"
SubscriptOwners ==
    Digits \cup {"a", "b", "c", "d", "e", "f", "g", "h", "i", "j", "k", "l", "m",
                 "n", "o", "p", "q", "r", "s", "t", "u", "v", "w", "x", "y", "z",
                 "_", "]", ")", "\"", "'"}

\* the text has a "[" that is not a subscript
HasLambdaBracket(text) ==
    \E i \in 1..Len(text) :
        /\ text[i] = "["
        /\ i = 1 \/ text[i - 1] \notin SubscriptOwners

\* the step takes a line that ends in a colon, outside of a comment, a
\* continuation and a collected condition, and pushes a frame for it
OpenerPushStep ==
    /\ CodeStep
    /\ control_keyword = NoKeyword
    /\ continuation_indent = NoIndent
    /\ find_trailing_colon(get_content(lines[current + 1])).found
    /\ Len(indent_stack') = KeptFrames(get_indent(lines[current + 1])) + 1

\* C39: a block-starter is typed LAMBDA only when it contains a "[" that is
\* not a subscript; the array parameter of "void f(int a[]):" does not make
\* the block a lambda
C39_LambdaOnlyForLambdaBracket ==
    [][(OpenerPushStep /\ Top(block_type_stack') = "LAMBDA") =>
        HasLambdaBracket(find_trailing_colon(get_content(lines[current + 1])).before)]_vars

\* C40: in every reachable state of Compiler indent_stack is strictly
\* increasing from its base element to its top
C40_IndentStackIncreasing ==
    \A k \in 1..(Len(indent_stack) - 1) : indent_stack[k] < indent_stack[k + 1]

====
